---- MODULE Spec2Model ----
(***************************************************************************)
(* Model of the property-search pipeline: the filter validator and the      *)
(* Listing model (src/src/models.py), build_query                           *)
(* (src/src/nodes/profile_builder.py), the query builder and the provider   *)
(* client (src/src/nodes/zillow_node.py), the record normalizer and         *)
(* deduplicator (src/src/nodes/normalizer.py), and the search endpoint that *)
(* runs them (src/run_agent.py, src/api_server.py).                         *)
(*                                                                         *)
(* Python values are tagged records; strings are sequences of one-character *)
(* strings so that strip(), the regular expressions and the f-string of the *)
(* dedup key are computed character by character.                          *)
(***************************************************************************)
EXTENDS Integers, Sequences, FiniteSets, TLC

VARIABLES request, APIFY_TOKEN, dataset, query, client, search_url, calls,
          raw, idx, listings, seen_properties, pc, clock, response, exc, error

vars == <<request, APIFY_TOKEN, dataset, query, client, search_url, calls,
          raw, idx, listings, seen_properties, pc, clock, response, exc, error>>

(***************************************************************************)
(* Bounds of the model.                                                    *)
(***************************************************************************)
\* longest batch of raw records of the batch specification
MaxBatch == 3
\* longest batch of each of the two concurrent invocations
MaxConcBatch == 2
\* last reading of the wall clock (datetime.now)
MaxClock == 1

(***************************************************************************)
(* Python values.                                                          *)
(***************************************************************************)
Missing == [t |-> "missing"]
PyNone == [t |-> "none"]
PyInt(n) == [t |-> "int", n |-> n]
\* a float with one fractional digit, held in tenths: PyFloat(55) is 5.5
PyFloat(n) == [t |-> "float", n |-> n]
PyBool(b) == [t |-> "bool", b |-> b]
PyStr(s) == [t |-> "str", s |-> s]
\* a dict: a function from the keys present to their values
PyDict(d) == [t |-> "dict", d |-> d]
\* a list, by its length only (no code path reads its elements)
PyList(n) == [t |-> "list", n |-> n]

EmptyDict == PyDict([k \in {} |-> PyNone])

IsNone(v) == v.t = "none"

\* bool(v)
Truthy(v) ==
  CASE v.t = "missing" -> FALSE
    [] v.t = "none" -> FALSE
    [] v.t = "int" -> v.n # 0
    [] v.t = "float" -> v.n # 0
    [] v.t = "bool" -> v.b
    [] v.t = "str" -> Len(v.s) > 0
    [] v.t = "dict" -> DOMAIN v.d # {}
    [] v.t = "list" -> v.n > 0
    [] v.t = "datetime" -> TRUE

\* d.get(k, default) on a dict value
GetDefault(dv, k, default) == IF k \in DOMAIN dv.d THEN dv.d[k] ELSE default

\* d.get(k)
Get(dv, k) == GetDefault(dv, k, PyNone)

(***************************************************************************)
(* Characters and strings.                                                 *)
(***************************************************************************)
Digits == <<"0", "1", "2", "3", "4", "5", "6", "7", "8", "9">>
UpperLetters == <<"A", "B", "C", "D", "E", "F", "G", "H", "I", "J", "K", "L", "M",
                  "N", "O", "P", "Q", "R", "S", "T", "U", "V", "W", "X", "Y", "Z">>
LowerLetters == <<"a", "b", "c", "d", "e", "f", "g", "h", "i", "j", "k", "l", "m",
                  "n", "o", "p", "q", "r", "s", "t", "u", "v", "w", "x", "y", "z">>
Whitespace == {" ", "\t", "\n"}

Range(s) == {s[i] : i \in DOMAIN s}
IsDigit(c) == c \in Range(Digits)
DigitVal(c) == (CHOOSE i \in 1..10 : Digits[i] = c) - 1

LowerChar(c) ==
  IF c \in Range(UpperLetters)
  THEN LowerLetters[CHOOSE i \in 1..26 : UpperLetters[i] = c]
  ELSE c
UpperChar(c) ==
  IF c \in Range(LowerLetters)
  THEN UpperLetters[CHOOSE i \in 1..26 : LowerLetters[i] = c]
  ELSE c

\* str.lower(), str.upper()
Lower(s) == [i \in 1..Len(s) |-> LowerChar(s[i])]
Upper(s) == [i \in 1..Len(s) |-> UpperChar(s[i])]

\* s[p:].startswith(sub), p counted from 1
StartsWithAt(s, sub, p) ==
  /\ p + Len(sub) - 1 <= Len(s)
  /\ \A i \in 1..Len(sub) : s[p + i - 1] = sub[i]
StartsWith(s, sub) == StartsWithAt(s, sub, 1)

\* sub in s
Contains(s, sub) == \E p \in 1..(Len(s) + 1) : StartsWithAt(s, sub, p)

\* str.strip()
Strip(s) ==
  LET keep == {i \in 1..Len(s) : s[i] \notin Whitespace}
  IN IF keep = {} THEN <<>>
     ELSE LET lo == CHOOSE i \in keep : \A j \in keep : i <= j
              hi == CHOOSE i \in keep : \A j \in keep : j <= i
          IN SubSeq(s, lo, hi)

IsKeptChar(c) == IsDigit(c) \/ c = "."
IsToken(c) == IsDigit(c) \/ c = ","

\* a slip: the dots are stripped with the formatting characters
KeepDigitsOnly(s) == SelectSeq(s, IsDigit)

\* re.sub(r'[^\d.]', '', s)
KeepDigitsDots(s) == SelectSeq(s, IsKeptChar)
\* re.sub(r'[^\d]', '', s)
KeepDigits(s) == SelectSeq(s, IsDigit)

RECURSIVE DigitsToNat(_)
DigitsToNat(s) ==
  IF Len(s) = 0 THEN 0
  ELSE 10 * DigitsToNat(SubSeq(s, 1, Len(s) - 1)) + DigitVal(s[Len(s)])

RECURSIVE NatToChars(_)
NatToChars(n) ==
  IF n < 10 THEN <<Digits[n + 1]>>
  ELSE NatToChars(n \div 10) \o <<Digits[(n % 10) + 1]>>

\* str(n) of an int
IntToChars(n) == IF n < 0 THEN <<"-">> \o NatToChars(0 - n) ELSE NatToChars(n)

\* int(x) of a float held in tenths: truncation toward zero
TruncTenths(n) == IF n < 0 THEN 0 - ((0 - n) \div 10) ELSE n \div 10

\* the text float() accepts among strings of digits and dots:
\* digits, digits "." digits, "." digits, digits "."
IsFloatText(s) ==
  LET dots == {i \in 1..Len(s) : s[i] = "."}
  IN /\ \A i \in 1..Len(s) : IsKeptChar(s[i])
     /\ Cardinality(dots) <= 1
     /\ Len(s) - Cardinality(dots) >= 1

\* the digits before the dot of a float text
IntPart(s) ==
  LET dots == {i \in 1..Len(s) : s[i] = "."}
  IN IF dots = {} THEN s ELSE SubSeq(s, 1, (CHOOSE i \in dots : TRUE) - 1)

\* the first digit after the dot of a float text, 0 when there is none
FracTenth(s) ==
  LET dots == {i \in 1..Len(s) : s[i] = "."}
      d == CHOOSE i \in dots : TRUE
  IN IF dots = {} \/ d = Len(s) THEN 0 ELSE DigitVal(s[d + 1])

\* float(s) in tenths, for a float text
FloatTenths(s) == 10 * DigitsToNat(IntPart(s)) + FracTenth(s)

STR_None == <<"N", "o", "n", "e">>
STR_True == <<"T", "r", "u", "e">>
STR_False == <<"F", "a", "l", "s", "e">>
STR_from == <<"f", "r", "o", "m">>
STR_RENT == <<"R", "E", "N", "T">>
STR_sale == <<"s", "a", "l", "e">>
STR_rental == <<"r", "e", "n", "t", "a", "l">>
STR_http == <<"h", "t", "t", "p", ":", "/", "/">>
STR_https == <<"h", "t", "t", "p", "s", ":", "/", "/">>
STR_origin == STR_https \o <<"w", "w", "w", ".", "z", "i", "l", "l", "o", "w", ".", "c", "o", "m">>

\* str(x) of a float held in tenths
FloatToChars(n) ==
  (IF n < 0 THEN <<"-">> ELSE <<>>)
    \o NatToChars((IF n < 0 THEN 0 - n ELSE n) \div 10)
    \o <<".">> \o <<Digits[((IF n < 0 THEN 0 - n ELSE n) % 10) + 1]>>

(***************************************************************************)
(* str() of a value.  A dict is rendered as its repr with the keys in the   *)
(* order of ReprKeys (the raw records of the model insert them in that      *)
(* order).                                                                  *)
(***************************************************************************)
ReprKeys == <<"streetAddress", "address", "line1", "city", "state", "zip",
              "latitude", "longitude", "homeInfo">>

STR_key(k) ==
  CASE k = "streetAddress" -> <<"s", "t", "r", "e", "e", "t", "A", "d", "d", "r", "e", "s", "s">>
    [] k = "address" -> <<"a", "d", "d", "r", "e", "s", "s">>
    [] k = "line1" -> <<"l", "i", "n", "e", "1">>
    [] k = "city" -> <<"c", "i", "t", "y">>
    [] k = "state" -> <<"s", "t", "a", "t", "e">>
    [] k = "zip" -> <<"z", "i", "p">>
    [] k = "latitude" -> <<"l", "a", "t", "i", "t", "u", "d", "e">>
    [] k = "longitude" -> <<"l", "o", "n", "g", "i", "t", "u", "d", "e">>
    [] k = "homeInfo" -> <<"h", "o", "m", "e", "I", "n", "f", "o">>

\* str(v) of a value that is not a dict
ScalarStr(v) ==
  CASE v.t = "none" -> STR_None
    [] v.t = "int" -> IntToChars(v.n)
    [] v.t = "float" -> FloatToChars(v.n)
    [] v.t = "bool" -> IF v.b THEN STR_True ELSE STR_False
    [] v.t = "str" -> v.s
    [] v.t = "list" -> <<"[", "]">>
    [] OTHER -> <<"{", "}">>

\* repr(v) of a value inside a dict: strings are quoted
ScalarRepr(v) == IF v.t = "str" THEN <<"'">> \o v.s \o <<"'">> ELSE ScalarStr(v)

RECURSIVE ReprItems(_, _)
ReprItems(dv, i) ==
  IF i > Len(ReprKeys) THEN <<>>
  ELSE LET k == ReprKeys[i]
           rest == ReprItems(dv, i + 1)
       IN IF k \in DOMAIN dv.d
          THEN <<"'">> \o STR_key(k) \o <<"'", ":", " ">> \o ScalarRepr(dv.d[k])
                 \o (IF rest = <<>> THEN <<>> ELSE <<",", " ">> \o rest)
          ELSE rest

\* str(v)
PyStrOf(v) ==
  IF v.t = "dict" THEN <<"{">> \o ReprItems(v, 1) \o <<"}">> ELSE ScalarStr(v)

(***************************************************************************)
(* The primitive extractors.  A result is a value, or Raise when the        *)
(* extractor raises an exception.                                           *)
(***************************************************************************)
Raise == [t |-> "raise"]
Raised(v) == v.t = "raise"

\* re.search(r'from\s*\$?([0-9,]+)', s): the positions of the group of the
\* leftmost match, <<0, 0>> when there is no match
FromMatch(s) ==
  LET SkipWs(p) ==
        LET stops == {q \in p..(Len(s) + 1) : q = Len(s) + 1 \/ s[q] \notin Whitespace}
        IN CHOOSE q \in stops : \A r \in stops : q <= r
      GroupStart(p) ==
        LET q == SkipWs(p + 4)
        IN IF q <= Len(s) /\ s[q] = "$" THEN q + 1 ELSE q
      Matches(p) ==
        /\ StartsWithAt(s, STR_from, p)
        /\ GroupStart(p) <= Len(s)
        /\ IsToken(s[GroupStart(p)])
      starts == {p \in 1..Len(s) : Matches(p)}
  IN IF starts = {} THEN <<0, 0>>
     ELSE LET p == CHOOSE q \in starts : \A r \in starts : q <= r
              g == GroupStart(p)
              ends == {e \in g..Len(s) : \A i \in g..e : IsToken(s[i])}
              e == CHOOSE x \in ends : \A y \in ends : y <= x
          IN <<g, e>>

\* int(float(price_str)), None on ValueError
ParsePriceText(price_str) ==
  IF IsFloatText(price_str) THEN PyInt(DigitsToNat(IntPart(price_str))) ELSE PyNone

\* _extract_price
ExtractPrice(price_data) ==
  CASE price_data.t = "none" -> PyNone
    [] price_data.t = "int" -> PyInt(price_data.n)
    [] price_data.t = "float" -> PyInt(TruncTenths(price_data.n))
    [] price_data.t = "bool" -> PyInt(IF price_data.b THEN 1 ELSE 0)
    [] price_data.t = "str" ->
         LET low == Lower(price_data.s)
             m == FromMatch(low)
             price_str ==
               IF Contains(low, STR_from) /\ m # <<0, 0>>
               THEN KeepDigits(SubSeq(low, m[1], m[2]))
               ELSE KeepDigitsDots(price_data.s)
         IN ParsePriceText(price_str)
    [] OTHER -> PyNone

AddressKeys == <<"streetAddress", "address", "line1", "city", "state", "zip">>

RECURSIVE JoinParts(_, _)
JoinParts(dv, i) ==
  IF i > Len(AddressKeys) THEN <<>>
  ELSE LET k == AddressKeys[i]
           rest == JoinParts(dv, i + 1)
       IN IF k \in DOMAIN dv.d /\ Truthy(dv.d[k])
          THEN <<PyStrOf(dv.d[k])>> \o rest
          ELSE rest

RECURSIVE JoinWith(_, _)
JoinWith(parts, sep) ==
  IF Len(parts) = 0 THEN <<>>
  ELSE IF Len(parts) = 1 THEN parts[1]
  ELSE parts[1] \o sep \o JoinWith(Tail(parts), sep)

\* _extract_address
ExtractAddress(address_data) ==
  CASE address_data.t = "none" -> PyNone
    [] address_data.t = "str" -> PyStr(Strip(address_data.s))
    [] address_data.t = "dict" ->
         LET parts == JoinParts(address_data, 1)
         IN IF Len(parts) > 0 THEN PyStr(JoinWith(parts, <<",", " ">>)) ELSE PyNone
    [] OTHER -> IF Truthy(address_data) THEN PyStr(PyStrOf(address_data)) ELSE PyNone

\* re.search(r'(\d+(?:\.\d+)?)', s) as a float in tenths, -1 when no match
FirstNumberTenths(s) ==
  LET starts == {p \in 1..Len(s) : IsDigit(s[p])}
  IN IF starts = {} THEN 0 - 1
     ELSE LET p == CHOOSE q \in starts : \A r \in starts : q <= r
              ends == {e \in p..Len(s) : \A i \in p..e : IsDigit(s[i])}
              e == CHOOSE x \in ends : \A y \in ends : y <= x
              hasFrac == e + 2 <= Len(s) /\ s[e + 1] = "." /\ IsDigit(s[e + 2])
          IN 10 * DigitsToNat(SubSeq(s, p, e)) + (IF hasFrac THEN DigitVal(s[e + 2]) ELSE 0)

\* _extract_number
ExtractNumber(number_data, float_allowed) ==
  CASE number_data.t = "none" -> PyNone
    [] number_data.t = "int" ->
         IF float_allowed THEN PyFloat(10 * number_data.n) ELSE PyInt(number_data.n)
    [] number_data.t = "float" ->
         IF float_allowed THEN number_data ELSE PyInt(TruncTenths(number_data.n))
    [] number_data.t = "bool" ->
         LET n == IF number_data.b THEN 1 ELSE 0
         IN IF float_allowed THEN PyFloat(10 * n) ELSE PyInt(n)
    [] number_data.t = "str" ->
         LET num == FirstNumberTenths(number_data.s)
         IN IF num < 0 THEN PyNone
            ELSE IF float_allowed THEN PyFloat(num) ELSE PyInt(TruncTenths(num))
    [] OTHER -> PyNone

\* _extract_url
ExtractUrl(url_data) ==
  CASE url_data.t = "none" -> PyNone
    [] url_data.t = "str" ->
         LET url == Strip(url_data.s)
             full ==
               IF Len(url) > 0 /\ ~StartsWith(url, STR_http) /\ ~StartsWith(url, STR_https)
               THEN IF StartsWith(url, <<"/">>) THEN STR_origin \o url ELSE STR_https \o url
               ELSE url
         IN IF Len(full) > 0 THEN PyStr(full) ELSE PyNone
    [] OTHER -> IF Truthy(url_data) THEN PyStr(PyStrOf(url_data)) ELSE PyNone

\* float(x) in tenths, Raise on ValueError or TypeError
ToFloat(v) ==
  CASE v.t = "int" -> PyFloat(10 * v.n)
    [] v.t = "float" -> v
    [] v.t = "bool" -> PyFloat(IF v.b THEN 10 ELSE 0)
    [] v.t = "str" ->
         LET neg == Len(v.s) > 0 /\ v.s[1] = "-"
             body == IF neg THEN Tail(Strip(v.s)) ELSE Strip(v.s)
         IN IF IsFloatText(body)
            THEN PyFloat(IF neg THEN 0 - FloatTenths(body) ELSE FloatTenths(body))
            ELSE Raise
    [] OTHER -> Raise

\* the pair float(lat), float(lon) of _extract_coordinates
FloatPair(lat, lon) ==
  IF Raised(ToFloat(lat)) \/ Raised(ToFloat(lon)) THEN Raise
  ELSE [t |-> "pair", lat |-> ToFloat(lat), lon |-> ToFloat(lon)]

NonePair == [t |-> "pair", lat |-> PyNone, lon |-> PyNone]

\* the direct-field branch of _extract_coordinates
DirectCoordinates(item) ==
  LET lat == Get(item, "latitude")
      lon == Get(item, "longitude")
  IN IF ~IsNone(lat) /\ ~IsNone(lon) THEN FloatPair(lat, lon) ELSE NonePair

\* _extract_coordinates
ExtractCoordinates(item) ==
  LET lat_long == GetDefault(item, "latLong", EmptyDict)
  IN IF Truthy(lat_long)
     THEN IF lat_long.t # "dict" THEN Raise
          ELSE LET lat == Get(lat_long, "latitude")
                   lon == Get(lat_long, "longitude")
               IN IF ~IsNone(lat) /\ ~IsNone(lon) THEN FloatPair(lat, lon)
                  ELSE DirectCoordinates(item)
     ELSE DirectCoordinates(item)

(***************************************************************************)
(* The two extraction paths.  A result is Data(d), ReturnNone or Raise.     *)
(***************************************************************************)
Data(d) == [t |-> "data", d |-> d]
ReturnNone == [t |-> "returnnone"]

\* "RENT" in status_text: a substring test on a string, TypeError on None or
\* a number
RentIn(status_text) ==
  IF status_text.t = "str" THEN PyBool(Contains(status_text.s, STR_RENT)) ELSE Raise

\* item.get("statusType", "").upper(): AttributeError unless a string
UpperOf(v) == IF v.t = "str" THEN PyStr(Upper(v.s)) ELSE Raise

\* "listing_type": "rental" if is_rental else "sale"
ListingType(is_rental) == IF is_rental THEN PyStr(STR_rental) ELSE PyStr(STR_sale)

\* a slip: the sale price is set whatever the classification
SalePriceAlways(is_rental, price) == price

\* "sale_price": None if is_rental else price
SalePrice(is_rental, price) == IF is_rental THEN PyNone ELSE price

\* "rental_price": price if is_rental else None
RentalPrice(is_rental, price) == IF is_rental THEN price ELSE PyNone

\* if not address or not price: return None
BuildingLacksBasics(address, price) == ~Truthy(address) \/ ~Truthy(price)

\* the dict _process_building returns, from the values it extracted
BuildingData(item, address, price, coords, status_text, is_rental) ==
  IF Raised(coords) THEN Raise
  ELSE IF BuildingLacksBasics(address, price) THEN ReturnNone
  ELSE IF Raised(status_text) THEN Raise
  ELSE Data([zpid |-> PyStr(PyStrOf(GetDefault(item, "buildingId", PyStr(<<>>)))),
             building |-> PyBool(TRUE),
             listing_type |-> ListingType(is_rental),
             home_status |-> Get(item, "statusType"),
             address |-> address,
             sale_price |-> SalePrice(is_rental, price),
             rental_price |-> RentalPrice(is_rental, price),
             latitude |-> coords.lat,
             longitude |-> coords.lon,
             beds |-> ExtractNumber(Get(item, "minBeds"), FALSE),
             baths |-> ExtractNumber(Get(item, "minBaths"), TRUE),
             living_area |-> ExtractNumber(Get(item, "minArea"), FALSE),
             source_url |-> ExtractUrl(Get(item, "detailUrl"))])

\* is_rental = "RENT" in status_text, of the upper-cased status flag
BuildingIsRental(status_text) == RentIn(status_text).b

\* _process_building
ProcessBuilding(item) ==
  BuildingData(item,
               ExtractAddress(Get(item, "address")),
               ExtractPrice(Get(item, "price")),
               ExtractCoordinates(item),
               UpperOf(GetDefault(item, "statusType", PyStr(<<>>))),
               BuildingIsRental(UpperOf(GetDefault(item, "statusType", PyStr(<<>>)))))

\* item.get("hdpData", {}).get("homeInfo", {}): AttributeError unless hdpData
\* is a dict
HdpData(item) ==
  LET hdp == GetDefault(item, "hdpData", EmptyDict)
  IN IF hdp.t = "dict" THEN GetDefault(hdp, "homeInfo", EmptyDict) ELSE Raise

\* the address of an individual record: _extract_address(item)
IndividualAddress(item) == ExtractAddress(item)

\* the dict _process_individual_property returns, from the values it extracted
IndividualData(item, coords, address, price, rent, hdp_data) ==
  IF Raised(coords) \/ Raised(rent) \/ hdp_data.t # "dict" THEN Raise
  ELSE Data([zpid |-> PyStr(PyStrOf(Get(item, "zpid"))),
             building |-> PyBool(FALSE),
             listing_type |-> ListingType(rent.b),
             home_type |-> Get(item, "homeType"),
             home_status |-> Get(item, "statusType"),
             sale_price |-> SalePrice(rent.b, price),
             rental_price |-> RentalPrice(rent.b, price),
             zestimate |-> ExtractNumber(Get(hdp_data, "zestimate"), FALSE),
             rent_zestimate |-> ExtractNumber(Get(hdp_data, "rentZestimate"), FALSE),
             address |-> address,
             beds |-> ExtractNumber(Get(item, "beds"), FALSE),
             baths |-> ExtractNumber(Get(item, "baths"), TRUE),
             living_area |-> ExtractNumber(Get(item, "area"), FALSE),
             lot_size |-> IF IsNone(Get(hdp_data, "lotAreaValue")) THEN PyNone
                          ELSE PyStr(PyStrOf(Get(hdp_data, "lotAreaValue"))),
             year_built |-> ExtractNumber(Get(hdp_data, "yearBuilt"), FALSE),
             latitude |-> coords.lat,
             longitude |-> coords.lon,
             source_url |-> ExtractUrl(Get(item, "detailUrl")),
             broker_name |-> Get(item, "brokerName"),
             days_on_zillow |-> ExtractNumber(Get(item, "timeOnZillow"), FALSE)])

\* _process_individual_property
ProcessIndividual(item) ==
  IndividualData(item,
                 ExtractCoordinates(item),
                 IndividualAddress(item),
                 ExtractPrice(Get(item, "price")),
                 RentIn(GetDefault(item, "statusText", PyStr(<<>>))),
                 HdpData(item))

(***************************************************************************)
(* The Listing model.                                                      *)
(***************************************************************************)
ListingFields == {"zpid", "listing_type", "home_type", "home_status", "sale_price",
                  "rental_price", "zestimate", "rent_zestimate", "address", "beds",
                  "baths", "living_area", "lot_size", "year_built", "latitude",
                  "longitude", "source_url", "broker_name", "building"}

\* the value a keyword argument gives a field, the field's default otherwise
FieldOf(d, f) ==
  IF f \in DOMAIN d THEN d[f]
  ELSE IF f = "building" THEN PyBool(FALSE) ELSE PyNone

\* Optional[str]: a string or None, nothing is coerced to a string
IsOptStr(v) == v.t \in {"none", "str"}

\* HttpUrl: an http or https scheme and a host without whitespace
IsHttpUrl(s) ==
  LET rest == IF StartsWith(s, STR_https) THEN SubSeq(s, 9, Len(s))
              ELSE IF StartsWith(s, STR_http) THEN SubSeq(s, 8, Len(s))
              ELSE <<>>
      slashes == {i \in 1..Len(rest) : rest[i] = "/"}
      hostEnd == IF slashes = {} THEN Len(rest)
                 ELSE (CHOOSE i \in slashes : \A j \in slashes : i <= j) - 1
  IN /\ hostEnd >= 1
     /\ \A i \in 1..hostEnd : rest[i] \notin Whitespace

\* the url as HttpUrl holds it: an empty path becomes "/"
NormalUrl(s) ==
  LET rest == IF StartsWith(s, STR_https) THEN SubSeq(s, 9, Len(s)) ELSE SubSeq(s, 8, Len(s))
  IN IF \E i \in 1..Len(rest) : rest[i] = "/" THEN s ELSE s \o <<"/">>

\* the validation of Listing(**normalized_data)
ListingValid(d) ==
  /\ \A f \in {"zpid", "home_type", "home_status", "address", "lot_size", "broker_name"} :
       IsOptStr(FieldOf(d, f))
  /\ LET u == FieldOf(d, "source_url") IN IsNone(u) \/ (u.t = "str" /\ IsHttpUrl(u.s))

\* datetime.now() of the timestamp's default_factory
Timestamp(now) == now

\* Listing(**normalized_data): unknown keys are ignored, absent ones default
MakeListing(d, now) ==
  [f \in ListingFields \cup {"timestamp"} |->
     IF f = "timestamp" THEN [t |-> "datetime", n |-> Timestamp(now)]
     ELSE IF f = "source_url" /\ ~IsNone(FieldOf(d, f)) THEN PyStr(NormalUrl(FieldOf(d, f).s))
     ELSE FieldOf(d, f)]

(***************************************************************************)
(* normalize_results: one iteration of its loop.                           *)
(***************************************************************************)
\* if not item or not isinstance(item, dict): continue
NotARecord(item) == ~Truthy(item) \/ item.t # "dict"

\* x or y, x and y of Python, by truth value
HasCoordinates(item) ==
  \/ Truthy(Get(item, "latLong"))
  \/ (Truthy(Get(item, "latitude")) /\ Truthy(Get(item, "longitude")))

\* a slip: the gate asks for an identifier or a coordinate
HasSignalNeedsId(item) ==
  \/ Truthy(Get(item, "zpid"))
  \/ Truthy(Get(item, "buildingId"))
  \/ HasCoordinates(item)

\* any([has_address, has_price, has_zpid, has_building_id, has_coordinates])
HasSignal(item) ==
  \/ Truthy(Get(item, "address"))
  \/ Truthy(Get(item, "price")) \/ Truthy(Get(item, "unformattedPrice"))
  \/ Truthy(Get(item, "zpid"))
  \/ Truthy(Get(item, "buildingId"))
  \/ HasCoordinates(item)

\* a slip: only the isBuilding flag is consulted
IsBuildingByFlag(item) == Truthy(Get(item, "isBuilding"))

\* is_building = bool(item.get("isBuilding") or item.get("buildingId"))
IsBuilding(item) == Truthy(Get(item, "isBuilding")) \/ Truthy(Get(item, "buildingId"))

\* normalized_data of the record
Normalized(item) == IF IsBuilding(item) THEN ProcessBuilding(item) ELSE ProcessIndividual(item)

\* price_for_dedup = sale_price if sale_price is not None else rental_price
PriceForDedup(d) == IF ~IsNone(d.sale_price) THEN d.sale_price ELSE d.rental_price

\* f"{normalized_data['address']}_{price_for_dedup}_{listing_type}"
DedupKey(d) ==
  PyStrOf(d.address) \o <<"_">> \o PyStrOf(PriceForDedup(d)) \o <<"_">> \o PyStrOf(d.listing_type)

Skip(why) == [kind |-> "skip", why |-> why]
Emit(l, k) == [kind |-> "emit", listing |-> l, key |-> k]
Raising == [kind |-> "raise"]

\* the try block after normalized_data is computed
TryWith(nd, seen, now) ==
  IF Raised(nd) THEN Raising
  ELSE IF nd = ReturnNone THEN Skip("none")
  ELSE IF DedupKey(nd.d) \in seen THEN Skip("duplicate")
  ELSE IF ~ListingValid(nd.d) THEN Raising
  ELSE Emit(MakeListing(nd.d, now), DedupKey(nd.d))

\* the body of the try block, for a record that passed the gate
TryBlock(item, seen, now) == TryWith(Normalized(item), seen, now)

\* a slip: the exception is not caught and leaves normalize_results
RecoverNothing(outcome) == outcome

\* except ValidationError: continue / except Exception: continue
Recover(outcome) == IF outcome.kind = "raise" THEN Skip("error") ELSE outcome

\* one iteration of the loop over raw_items
Iteration(item, seen, now) ==
  IF NotARecord(item) THEN Skip("shape")
  ELSE IF ~HasSignal(item) THEN Skip("shape")
  ELSE Recover(TryBlock(item, seen, now))

\* a slip: the invocations consult one shared set
SeenByAll(r, seen_all) == UNION {seen_all[q] : q \in DOMAIN seen_all}

\* the set an invocation consults for duplicates: its own local set
SeenBy(r, seen_all) == seen_all[r]

\* a slip: the key is not remembered
RememberNothing(seen, key) == seen

\* seen_properties.add(dedup_key)
Remember(seen, key) == seen \cup {key}

(***************************************************************************)
(* The Filter Validator: SearchFilters of src/src/models.py.  The nodes     *)
(* import it under the name SearchQuery, a name models.py no longer         *)
(* defines; SearchFilters is the consolidated model that stands for it.     *)
(***************************************************************************)
STR_both == <<"b", "o", "t", "h">>

\* MAX_RADIUS_MILES = 0.5, in tenths of a mile
MAX_RADIUS_MILES == 5

FilterFields ==
  { "listing_type", "latitude", "longitude", "radius_miles",
    "min_sale_price", "max_sale_price", "min_rent_price", "max_rent_price",
    "min_beds", "max_beds", "min_baths", "max_baths", "home_types" }

\* the fields declared Optional[int]
IntFields ==
  { "min_sale_price", "max_sale_price", "min_rent_price", "max_rent_price",
    "min_beds", "max_beds" }

\* the outcome of a field whose value is refused
Invalid == [t |-> "invalid"]

\* a float field takes a number, or a text that reads as one
AsFloat(v) == IF Raised(ToFloat(v)) THEN Invalid ELSE ToFloat(v)

\* an int field takes an int, a float without fraction, or a text of digits
AsInt(v) ==
  CASE v.t = "int" -> v
    [] v.t = "float" -> IF v.n % 10 = 0 THEN PyInt(TruncTenths(v.n)) ELSE Invalid
    [] v.t = "bool" -> PyInt(IF v.b THEN 1 ELSE 0)
    [] v.t = "str" ->
         IF Len(v.s) > 0 /\ \A i \in 1..Len(v.s) : IsDigit(v.s[i])
         THEN PyInt(DigitsToNat(v.s)) ELSE Invalid
    [] OTHER -> Invalid

\* Literal["sale", "rental", "both"] and validate_listing_type
ValidListingType(v) ==
  IF v.t = "str" /\ v.s \in {STR_sale, STR_rental, STR_both} THEN v ELSE Invalid

\* a slip: a radius of zero passes (v < 0 for v <= 0)
ValidRadiusZero(x) ==
  IF x = Invalid THEN Invalid
  ELSE IF x.n < 0 \/ x.n > MAX_RADIUS_MILES THEN Invalid
  ELSE x

\* radius_miles: float, and validate_radius
ValidRadius(x) ==
  IF x = Invalid THEN Invalid
  ELSE IF x.n <= 0 \/ x.n > MAX_RADIUS_MILES THEN Invalid
  ELSE x

\* Optional[float] with validate_latitude (limit 90) or validate_longitude
\* (limit 180)
ValidDegrees(v, x, limit) ==
  IF IsNone(v) THEN v
  ELSE IF x = Invalid THEN Invalid
  ELSE IF x.n < 0 - 10 * limit \/ x.n > 10 * limit THEN Invalid
  ELSE x

\* the validated value of a supplied field, or Invalid
ValidField(f, v) ==
  CASE f = "listing_type" -> ValidListingType(v)
    [] f = "radius_miles" -> ValidRadius(AsFloat(v))
    [] f = "latitude" -> ValidDegrees(v, AsFloat(v), 90)
    [] f = "longitude" -> ValidDegrees(v, AsFloat(v), 180)
    [] f \in IntFields -> IF IsNone(v) THEN v ELSE AsInt(v)
    [] f \in {"min_baths", "max_baths"} -> IF IsNone(v) THEN v ELSE AsFloat(v)
    [] f = "home_types" -> IF v.t \in {"none", "list"} THEN v ELSE Invalid

\* the supplied fields that fail; a key that is no field is ignored
OffendingFields(d) ==
  {f \in FilterFields \cap DOMAIN d : ValidField(f, d[f]) = Invalid}

\* pydantic's ValidationError, which names every offending field
ValidationError(fields) == [type |-> "ValidationError", fields |-> fields]

\* the model instance: a field that is not supplied takes its default None
\* and no validator runs on it
FiltersValue(d) ==
  [f \in FilterFields |-> IF f \in DOMAIN d THEN ValidField(f, d[f]) ELSE PyNone]

\* SearchFilters(**d)
SearchFilters(d) ==
  IF OffendingFields(d) # {}
  THEN [ok |-> FALSE, exc |-> ValidationError(OffendingFields(d))]
  ELSE [ok |-> TRUE, value |-> FiltersValue(d)]

(***************************************************************************)
(* build_query of src/src/nodes/profile_builder.py.                         *)
(***************************************************************************)
\* no filters_file argument, a path with no file behind it, and a file
NoFile == [t |-> "nofile"]
MissingFile == [t |-> "missing"]
\* a file whose text is the JSON of content, or is no JSON when json is FALSE
FileOf(json, content) == [t |-> "file", json |-> json, content |-> content]

\* the default fallback: listing_type="both", latitude=30.2672,
\* longitude=-97.7431, radius_miles=10.0 (coordinates to one decimal)
DefaultFilters ==
  [listing_type |-> PyStr(STR_both), latitude |-> PyFloat(303),
   longitude |-> PyFloat(0 - 977), radius_miles |-> PyFloat(100)]

\* json.load and SearchQuery(**filters_data) succeed on the file
FileGivesQuery(file) ==
  /\ file.t = "file"
  /\ file.json
  /\ file.content.t = "dict"
  /\ SearchFilters(file.content.d).ok

\* build_query(filters, filters_file)
BuildQueryOf(filters, file) ==
  IF Truthy(filters) THEN SearchFilters(filters.d)
  ELSE IF FileGivesQuery(file) THEN SearchFilters(file.content.d)
  ELSE SearchFilters(DefaultFilters)

(***************************************************************************)
(* The Query Builder: build_zillow_url of src/src/nodes/zillow_node.py.     *)
(* Degrees are held in hundred-thousandths, truncated.                      *)
(***************************************************************************)
Abs(n) == IF n < 0 THEN 0 - n ELSE n

\* an exception that leaves a function
RaiseOf(type) == [t |-> "raise", exc |-> [type |-> type]]

\* query.radius_miles or 5.0, in tenths of a mile
RadiusOr5(q) == IF Truthy(q.radius_miles) THEN q.radius_miles.n ELSE 50

\* lat_offset = radius / 69.0
LatOffset(q) == (RadiusOr5(q) * 10000) \div 69

\* lng_offset = radius / (69.0 * abs(latitude) * 0.01745329)
LngOffset(q) ==
  (RadiusOr5(q) * 1000000) \div ((Abs(q.latitude.n) * 1204277) \div 100000)

\* map_bounds
MapBounds(q) ==
  [west |-> q.longitude.n * 10000 - LngOffset(q),
   east |-> q.longitude.n * 10000 + LngOffset(q),
   south |-> q.latitude.n * 10000 - LatOffset(q),
   north |-> q.latitude.n * 10000 + LatOffset(q)]

\* the entry k: v of a dict when cond holds, no entry otherwise
When(cond, k, v) == IF cond THEN k :> v ELSE EmptyDict.d

\* a min/max sub-object: if lo: f["min"] = lo; if hi: f["max"] = hi
MinMax(lo, hi) == When(Truthy(lo), "min", lo) @@ When(Truthy(hi), "max", hi)

ForSale(q) == q.listing_type = PyStr(STR_sale) \/ q.listing_type = PyStr(STR_both)
ForRent(q) == q.listing_type = PyStr(STR_rental) \/ q.listing_type = PyStr(STR_both)

OnValue == [value |-> TRUE]

\* filter_state
FilterState(q) ==
  ("sort" :> [value |-> "days"])
  @@ When(ForSale(q) /\ DOMAIN MinMax(q.min_sale_price, q.max_sale_price) # {},
          "price", MinMax(q.min_sale_price, q.max_sale_price))
  @@ When(ForRent(q) /\ DOMAIN MinMax(q.min_rent_price, q.max_rent_price) # {},
          "monthlyPayment", MinMax(q.min_rent_price, q.max_rent_price))
  @@ When(Truthy(q.min_beds) \/ Truthy(q.max_beds),
          "beds", MinMax(q.min_beds, q.max_beds))
  @@ When(Truthy(q.min_baths) \/ Truthy(q.max_baths),
          "baths", MinMax(q.min_baths, q.max_baths))
  @@ When(Truthy(q.home_types), "homeType", q.home_types)
  @@ When(q.listing_type = PyStr(STR_sale), "isForSaleByAgent", OnValue)
  @@ When(q.listing_type = PyStr(STR_sale), "isForSaleByOwner", OnValue)
  @@ When(q.listing_type = PyStr(STR_rental), "isForRent", OnValue)

\* map_bounds and base_url are bound only under
\* if query.latitude and query.longitude
HasCenter(q) == Truthy(q.latitude) /\ Truthy(q.longitude)

\* build_zillow_url(query): the url, by the search query state it encodes;
\* the read of map_bounds raises when the center test did not bind it
BuildZillowUrl(q) ==
  IF ~HasCenter(q) THEN RaiseOf("UnboundLocalError")
  ELSE [t |-> "url", mapBounds |-> MapBounds(q), filterState |-> FilterState(q)]

(***************************************************************************)
(* The search: the endpoint of src/api_server.py, search_properties and     *)
(* main of src/run_agent.py, run_search of src/src/nodes/zillow_node.py.    *)
(***************************************************************************)
\* ThreadPoolExecutor(max_workers=4)
max_workers == 4

Requests == DOMAIN pc

\* a request of the endpoint; the others are direct calls of main
ViaApi(r) == request[r].via = "api"

\* the requests a pool thread is working on
Running ==
  {r \in Requests :
     ViaApi(r) /\ pc[r] \in {"build", "search", "call", "fetch", "normalize", "output"}}

\* listing.model_dump() with the timestamp as its ISO text and the url as text
Dump(l) ==
  [f \in DOMAIN l |->
     IF f = "timestamp" /\ Truthy(l[f]) THEN PyStr(IntToChars(l[f].n)) ELSE l[f]]

\* listings_data of search_properties_endpoint
ListingsData(ls) == [i \in 1..Len(ls) |-> Dump(ls[i])]

\* SearchResponse(success=True, count=len(listings_data), listings=listings_data)
SearchResponse(ls) ==
  [success |-> TRUE, count |-> Len(ListingsData(ls)), listings |-> ListingsData(ls)]

NoResponse == [success |-> FALSE, count |-> 0, listings |-> <<>>]

\* no exception, and the exceptions of the stages
NoExc == [type |-> "none"]
TokenMissing == [type |-> "ValueError", about |-> "APIFY_TOKEN"]
ActorFailure == [type |-> "ApifyError", at |-> "actor"]
DatasetFailure == [type |-> "ApifyError", at |-> "dataset"]
RecordError == [type |-> "RecordError"]
OutputError == [type |-> "IndexError"]

\* a slip: the failure is logged and nothing is raised
HTTPExceptionLost(e) == [status_code |-> 0, detail |-> [type |-> "none"]]

\* HTTPException(status_code=500, detail=f"Search failed: {str(e)}")
HTTPException(e) == [status_code |-> 500, detail |-> e]

NoError == [status_code |-> 0, detail |-> NoExc]

\* the stage of request r raises e: main prints it and raises it again
RaiseIn(r, e) ==
  /\ exc' = [exc EXCEPT ![r] = e]
  /\ pc' = [pc EXCEPT ![r] = "failed"]

\* run_in_executor: a pool thread takes search_properties for the request
Submit(r) ==
  /\ pc[r] = "queued"
  /\ Cardinality(Running) < max_workers
  /\ pc' = [pc EXCEPT ![r] = "build"]
  /\ UNCHANGED <<request, APIFY_TOKEN, dataset, query, client, search_url, calls,
                 raw, idx, listings, seen_properties, clock, response, exc, error>>

\* the filters dict of search_properties: listing_type and radius_miles
\* always, every other parameter that is not None
SearchPropertiesFilters(args) ==
  PyDict([f \in {"listing_type", "radius_miles"}
                  \cup {g \in DOMAIN args.d : ~IsNone(args.d[g])} |-> args.d[f]])

\* the filters main hands to build_query
FiltersOf(req) ==
  IF req.via = "api" THEN SearchPropertiesFilters(req.filters) ELSE req.filters

\* query = profile_builder.build_query(filters, filters_file)
BuildQuery(r) ==
  /\ pc[r] = "build"
  /\ IF BuildQueryOf(FiltersOf(request[r]), request[r].file).ok
     THEN /\ query' = [query EXCEPT ![r] =
                 BuildQueryOf(FiltersOf(request[r]), request[r].file).value]
          /\ pc' = [pc EXCEPT ![r] = "search"]
          /\ UNCHANGED exc
     ELSE /\ RaiseIn(r, BuildQueryOf(FiltersOf(request[r]), request[r].file).exc)
          /\ UNCHANGED query
  /\ UNCHANGED <<request, APIFY_TOKEN, dataset, client, search_url, calls,
                 raw, idx, listings, seen_properties, clock, response, error>>

\* a slip: the credential is not tested
TokenNeverMissing(token) == FALSE

\* if not APIFY_TOKEN
TokenIsMissing(token) == ~Truthy(token)

\* run_search up to the actor input: the credential test, ApifyClient(...)
\* and build_zillow_url(query)
RunSearchStart(r) ==
  /\ pc[r] = "search"
  /\ IF TokenIsMissing(APIFY_TOKEN)
     THEN /\ RaiseIn(r, TokenMissing)
          /\ UNCHANGED <<client, search_url>>
     ELSE /\ client' = [client EXCEPT ![r] = TRUE]
          /\ IF Raised(BuildZillowUrl(query[r]))
             THEN /\ RaiseIn(r, BuildZillowUrl(query[r]).exc)
                  /\ UNCHANGED search_url
             ELSE /\ search_url' = [search_url EXCEPT ![r] = BuildZillowUrl(query[r])]
                  /\ pc' = [pc EXCEPT ![r] = "call"]
                  /\ UNCHANGED exc
  /\ UNCHANGED <<request, APIFY_TOKEN, dataset, query, calls,
                 raw, idx, listings, seen_properties, clock, response, error>>

\* client.actor(ZILLOW_ACTOR_ID).call(run_input=actor_input): the provider
\* runs the actor, or the call fails
ActorCall(r) ==
  /\ pc[r] = "call"
  /\ calls' = [calls EXCEPT ![r] = @ + 1]
  /\ \/ /\ pc' = [pc EXCEPT ![r] = "fetch"]
        /\ UNCHANGED exc
     \/ RaiseIn(r, ActorFailure)
  /\ UNCHANGED <<request, APIFY_TOKEN, dataset, query, client, search_url,
                 raw, idx, listings, seen_properties, clock, response, error>>

\* a slip: the seen set outlives the call (a module-level set)
StaleSeen(seen_all, r) == UNION {seen_all[q] : q \in DOMAIN seen_all}

\* seen_properties: Set[str] = set(), a fresh local of each call
NewSeen(seen_all, r) == {}

\* what iterate_items delivers: the n items of the dataset, or the first
\* j <= n of them and then a failure
FetchOutcomes(items) ==
  {[ok |-> TRUE, got |-> Len(items)]} \cup {[ok |-> FALSE, got |-> j] : j \in 0..Len(items)}

\* a slip: the failure is swallowed and the items got so far are returned
FetchedSoFar(items, out) == [ok |-> TRUE, results |-> SubSeq(items, 1, out.got)]

\* the for loop over iterate_items and return results; a failure re-raises
Fetched(items, out) ==
  IF out.ok THEN [ok |-> TRUE, results |-> SubSeq(items, 1, out.got)]
  ELSE [ok |-> FALSE, results |-> <<>>]

\* the effect of the fetch with outcome res: run_search returns and main
\* enters normalize_results with fresh locals, or the failure leaves main
FetchWith(r, res) ==
  IF res.ok
  THEN /\ raw' = [raw EXCEPT ![r] = res.results]
       /\ idx' = [idx EXCEPT ![r] = 1]
       /\ listings' = [listings EXCEPT ![r] = <<>>]
       /\ seen_properties' = [seen_properties EXCEPT ![r] = NewSeen(seen_properties, r)]
       /\ pc' = [pc EXCEPT ![r] = "normalize"]
       /\ UNCHANGED exc
  ELSE /\ RaiseIn(r, DatasetFailure)
       /\ UNCHANGED <<raw, idx, listings, seen_properties>>

\* client.dataset(dataset_id).iterate_items()
FetchDataset(r) ==
  /\ pc[r] = "fetch"
  /\ \E out \in FetchOutcomes(dataset[r]) : FetchWith(r, Fetched(dataset[r], out))
  /\ UNCHANGED <<request, APIFY_TOKEN, dataset, query, client, search_url, calls,
                 clock, response, error>>

\* a slip: the Listing is put in front
PrependListing(ls, l) == <<l>> \o ls

\* listings.append(listing)
AppendListing(ls, l) == Append(ls, l)

\* the effect of one iteration with outcome out
StepWith(r, out) ==
  IF out.kind = "raise"
  THEN /\ RaiseIn(r, RecordError)
       /\ UNCHANGED <<idx, listings, seen_properties>>
  ELSE /\ idx' = [idx EXCEPT ![r] = @ + 1]
       /\ listings' = [listings EXCEPT ![r] =
            IF out.kind = "emit"
            THEN AppendListing(@, [listing |-> out.listing, from |-> idx[r]])
            ELSE @]
       /\ seen_properties' = [seen_properties EXCEPT ![r] =
            IF out.kind = "emit" THEN Remember(@, out.key) ELSE @]
       /\ UNCHANGED <<pc, exc>>

\* one iteration of for i, item in enumerate(raw_items)
NormalizeStep(r) ==
  /\ pc[r] = "normalize"
  /\ idx[r] <= Len(raw[r])
  /\ StepWith(r, Iteration(raw[r][idx[r]], SeenBy(r, seen_properties), clock))
  /\ UNCHANGED <<request, APIFY_TOKEN, dataset, query, client, search_url, calls,
                 raw, clock, response, error>>

\* return listings
NormalizeReturn(r) ==
  /\ pc[r] = "normalize"
  /\ idx[r] > Len(raw[r])
  /\ pc' = [pc EXCEPT ![r] = "output"]
  /\ UNCHANGED <<request, APIFY_TOKEN, dataset, query, client, search_url, calls,
                 raw, idx, listings, seen_properties, clock, response, exc, error>>

\* a slip: the example listing is read without the test of if listings
ExampleUnguarded(ls) == Len(ls) = 0

\* output_results raises: the loop, the prints and the dump take any list,
\* and listings[0] is read only under if listings
OutputRaises(ls) == FALSE

\* output_results(listings); return listings
OutputResults(r) ==
  /\ pc[r] = "output"
  /\ IF OutputRaises(listings[r])
     THEN RaiseIn(r, OutputError)
     ELSE /\ pc' = [pc EXCEPT ![r] = "respond"]
          /\ UNCHANGED exc
  /\ UNCHANGED <<request, APIFY_TOKEN, dataset, query, client, search_url, calls,
                 raw, idx, listings, seen_properties, clock, response, error>>

\* the success branch of search_properties_endpoint
Respond(r) ==
  /\ ViaApi(r)
  /\ pc[r] = "respond"
  /\ response' = [response EXCEPT ![r] =
       SearchResponse([i \in 1..Len(listings[r]) |-> listings[r][i].listing])]
  /\ pc' = [pc EXCEPT ![r] = "done"]
  /\ UNCHANGED <<request, APIFY_TOKEN, dataset, query, client, search_url, calls,
                 raw, idx, listings, seen_properties, clock, exc, error>>

\* except Exception as e: raise HTTPException(status_code=500, ...)
RespondError(r) ==
  /\ ViaApi(r)
  /\ pc[r] = "failed"
  /\ error' = [error EXCEPT ![r] = HTTPException(exc[r])]
  /\ pc' = [pc EXCEPT ![r] = "error"]
  /\ UNCHANGED <<request, APIFY_TOKEN, dataset, query, client, search_url, calls,
                 raw, idx, listings, seen_properties, clock, response, exc>>

\* the wall clock moves on
Tick ==
  /\ clock < MaxClock
  /\ clock' = clock + 1
  /\ UNCHANGED <<request, APIFY_TOKEN, dataset, query, client, search_url, calls,
                 raw, idx, listings, seen_properties, pc, response, exc, error>>

Next ==
  \/ \E r \in Requests : Submit(r)
  \/ \E r \in Requests : BuildQuery(r)
  \/ \E r \in Requests : RunSearchStart(r)
  \/ \E r \in Requests : ActorCall(r)
  \/ \E r \in Requests : FetchDataset(r)
  \/ \E r \in Requests : NormalizeStep(r)
  \/ \E r \in Requests : NormalizeReturn(r)
  \/ \E r \in Requests : OutputResults(r)
  \/ \E r \in Requests : Respond(r)
  \/ \E r \in Requests : RespondError(r)
  \/ Tick

(***************************************************************************)
(* Raw records of the provider.                                            *)
(***************************************************************************)
NoKeys == [k \in {} |-> PyNone]

TXT_a == PyStr(<<"a">>)
TXT_a_padded == PyStr(<<" ", "a", " ">>)
TXT_main == PyStr(<<"1", " ", "M", "a", "i", "n", " ", "S", "t">>)
TXT_none == PyStr(STR_None)
TXT_for_rent_upper == PyStr(<<"F", "O", "R", "_", "R", "E", "N", "T">>)
TXT_for_sale_upper == PyStr(<<"F", "O", "R", "_", "S", "A", "L", "E">>)
TXT_for_rent_mixed == PyStr(<<"H", "o", "u", "s", "e", " ", "f", "o", "r", " ", "r", "e", "n", "t">>)
TXT_for_rent_lower == PyStr(<<"f", "o", "r", "_", "r", "e", "n", "t">>)
TXT_price_450000 == PyStr(<<"$", "4", "5", "0", ",", "0", "0", "0">>)
TXT_price_from == PyStr(<<"F", "r", "o", "m", " ", "$", "3", "8", "8", ",", "0", "0", "0">>)
TXT_price_5 == PyStr(<<"$", "5">>)
TXT_price_call == PyStr(<<"c", "a", "l", "l">>)
TXT_url_path == PyStr(<<"/", "h">>)
TXT_url_rental == PyStr(<<"/", "b", "/", "r", "-", "r", "e", "n", "t", "a", "l", "s", "/">>)
TXT_url_bad == PyStr(<<"a", " ", "b">>)
LatLongOk == PyDict([latitude |-> PyFloat(12), longitude |-> PyInt(3)])

\* the records of the batch specification: duplicates of one another, a record
\* that fails validation, a record whose price is zero, and one that is no
\* mapping
CoreItems ==
  { PyDict([address |-> TXT_a, price |-> PyInt(5), zpid |-> PyStr(<<"1">>)]),
    PyDict([address |-> TXT_a, price |-> TXT_price_5, zpid |-> PyStr(<<"2">>)]),
    PyDict([address |-> TXT_a, price |-> PyInt(5), statusText |-> TXT_for_rent_upper]),
    PyDict([address |-> TXT_none, price |-> PyInt(5)]),
    PyDict([price |-> PyInt(5), zpid |-> PyStr(<<"3">>)]),
    PyDict([address |-> TXT_a, price |-> PyInt(5), detailUrl |-> TXT_url_bad]),
    PyDict([buildingId |-> PyStr(<<"b">>), address |-> TXT_a_padded, price |-> PyInt(5)]),
    PyDict([isBuilding |-> PyBool(TRUE), address |-> TXT_a, price |-> PyInt(0)]),
    PyNone }

\* the records of the two concurrent invocations
ConcItems ==
  { PyDict([address |-> TXT_a, price |-> PyInt(5), zpid |-> PyStr(<<"1">>)]),
    PyDict([address |-> TXT_a, price |-> PyInt(7)]) }

\* the records of the single-record specification: every combination of an
\* address, a price, an identifier, a shape, a coordinate and a status signal
AddressChoices ==
  { NoKeys, [address |-> TXT_main], [address |-> TXT_a_padded],
    [address |-> PyDict([city |-> TXT_a])] }
PriceChoices ==
  { NoKeys, [price |-> PyInt(5)], [price |-> PyInt(0)], [price |-> TXT_price_450000],
    [price |-> TXT_price_from], [price |-> TXT_price_call], [price |-> PyFloat(59)] }
IdChoices == { NoKeys, [zpid |-> PyStr(<<"1", "2", "3">>)] }
ShapeChoices == { NoKeys, [buildingId |-> PyStr(<<"b">>)], [isBuilding |-> PyBool(TRUE)] }
CoordinateChoices ==
  { NoKeys, [latLong |-> LatLongOk], [latitude |-> PyFloat(12), longitude |-> PyFloat(34)],
    [latLong |-> TXT_a] }
StatusChoices ==
  { NoKeys, [statusText |-> TXT_for_rent_upper], [statusText |-> TXT_for_rent_mixed],
    [statusText |-> PyNone],
    [statusType |-> TXT_for_rent_upper], [statusType |-> TXT_for_rent_lower],
    [statusType |-> TXT_for_sale_upper], [detailUrl |-> TXT_url_rental],
    [detailUrl |-> TXT_url_path] }

WideItems ==
  { PyDict(a @@ p @@ z @@ b @@ c @@ st) :
      a \in AddressChoices, p \in PriceChoices, z \in IdChoices,
      b \in ShapeChoices, c \in CoordinateChoices, st \in StatusChoices }

\* the records of the detail specification: the rooms, the facts of hdpData
\* and the time on the market of individual and of building records
TXT_b == PyStr(<<"b">>)
TXT_days == PyStr(<<"1", "2", " ", "d", "a", "y", "s">>)
DetailAddressChoices ==
  { [address |-> TXT_a_padded],
    [address |-> TXT_main, city |-> TXT_b],
    [address |-> PyDict([streetAddress |-> TXT_main, city |-> TXT_b])] }
RoomChoices ==
  { NoKeys,
    [beds |-> PyInt(3), baths |-> PyFloat(25), area |-> PyInt(900)],
    [minBeds |-> PyInt(1), minBaths |-> PyFloat(15), minArea |-> PyInt(500)],
    [beds |-> PyInt(3), baths |-> PyFloat(25), area |-> PyInt(900),
     minBeds |-> PyInt(1), minBaths |-> PyFloat(15), minArea |-> PyInt(500)] }
HomeInfo ==
  PyDict([homeInfo |-> PyDict([yearBuilt |-> PyInt(1990), zestimate |-> PyInt(7),
                               rentZestimate |-> PyInt(2)])])
HdpChoices == { NoKeys, [hdpData |-> HomeInfo] }
TimeChoices ==
  { NoKeys, [timeOnZillow |-> PyInt(3)], [timeOnZillow |-> PyFloat(35)],
    [timeOnZillow |-> TXT_days] }
DetailItems ==
  { PyDict([price |-> PyInt(5)] @@ a @@ b @@ ro @@ h @@ t) :
      a \in DetailAddressChoices, b \in ShapeChoices, ro \in RoomChoices,
      h \in HdpChoices, t \in TimeChoices }

\* the prices of the detail specification: numbers, formatted text, text with
\* the "from" marker, text with more than one dot, text without digits, and a
\* list
PriceTexts ==
  { PyInt(5), PyFloat(59), TXT_price_450000, TXT_price_from, TXT_price_call,
    PyStr(<<"$", "1", ",", "2", "0", "0", ".", "5", "0">>),
    PyStr(<<"3", " ", "b", "d", ".", " ", "2", " ", "b", "a", ".", " ", "$", "5">>),
    PyStr(<<"2", " ", "f", "r", "o", "m", " ", "$", "5">>),
    PyStr(<<"f", "r", "o", "m", " ", "c", "a", "l", "l", " ", "7">>),
    PyList(1) }
PriceItems ==
  { PyDict([address |-> TXT_a, price |-> p] @@ b) : p \in PriceTexts, b \in ShapeChoices }

\* the coordinates of the detail specification: text that is no number, and
\* a latLong that is no mapping
CoordinateItems ==
  { PyDict([address |-> TXT_a, price |-> PyInt(5)] @@ c @@ b) :
      c \in { [latitude |-> TXT_a, longitude |-> PyInt(3)],
              [latLong |-> PyDict([latitude |-> PyInt(1), longitude |-> TXT_a])],
              [latLong |-> TXT_a],
              [latLong |-> PyDict([latitude |-> PyStr(<<"1", ".", "5">>), longitude |-> PyInt(3)])] },
      b \in ShapeChoices }

\* the batches of at most n records of S
BatchesOf(S, n) == UNION {[1..k -> S] : k \in 0..n}

(***************************************************************************)
(* The credential, the caller's filters and the requests.                  *)
(***************************************************************************)
Token == PyStr(<<"k">>)

\* APIFY_TOKEN = os.getenv("APIFY_TOKEN"): set, or not set
Tokens == {PyNone, Token}

\* the SearchFilters model of the endpoint: its defaults
ApiDefault(f) ==
  IF f = "listing_type" THEN PyStr(STR_both)
  ELSE IF f = "radius_miles" THEN PyFloat(100)
  ELSE PyNone

\* the validators of the endpoint's model: any text is a listing_type before
\* validate_listing_type, and the radius is at most 100
ApiValidField(f, v) ==
  CASE f = "radius_miles" ->
         IF AsFloat(v) = Invalid THEN Invalid
         ELSE IF AsFloat(v).n <= 0 \/ AsFloat(v).n > 1000 THEN Invalid
         ELSE AsFloat(v)
    [] OTHER -> ValidField(f, v)

\* the endpoint's model accepts the body d
ApiAccepts(d) == \A f \in FilterFields \cap DOMAIN d : ApiValidField(f, d[f]) # Invalid

\* the instance the handler receives for the body d
ApiFilters(d) ==
  [f \in FilterFields |-> IF f \in DOMAIN d THEN ApiValidField(f, d[f]) ELSE ApiDefault(f)]

\* a request that reached the handler, and a direct call of main
ApiRequest(d) == [via |-> "api", filters |-> PyDict(ApiFilters(d)), file |-> NoFile]
MainRequest(filters, file) == [via |-> "main", filters |-> filters, file |-> file]

TXT_sale == PyStr(STR_sale)
TXT_rental == PyStr(STR_rental)
TXT_both == PyStr(STR_both)
TXT_condo == PyStr(<<"c", "o", "n", "d", "o">>)

\* a center away from the equator and the prime meridian, radius 0.3
Center == [latitude |-> PyFloat(300), longitude |-> PyFloat(0 - 970)]
GoodBody == Center @@ [radius_miles |-> PyFloat(3)]

\* the request of the batch specifications
GoodRequest == ApiRequest(GoodBody)

\* requests that end early: the endpoint's default radius, which the core
\* refuses, and a body without center
FewRequests == {GoodRequest, ApiRequest(Center), ApiRequest([radius_miles |-> PyFloat(3)])}

\* the choices of the validated fields
ListingTypeChoices ==
  { NoKeys, [listing_type |-> TXT_sale], [listing_type |-> TXT_rental],
    [listing_type |-> TXT_both], [listing_type |-> TXT_condo] }
LatitudeChoices ==
  { NoKeys, [latitude |-> PyInt(0)], [latitude |-> PyFloat(300)],
    [latitude |-> PyInt(0 - 90)], [latitude |-> PyInt(91)] }
LongitudeChoices ==
  { NoKeys, [longitude |-> PyFloat(0)], [longitude |-> PyFloat(0 - 970)],
    [longitude |-> PyFloat(1801)] }
RadiusChoices ==
  { NoKeys, [radius_miles |-> PyInt(0)], [radius_miles |-> PyFloat(0 - 1)],
    [radius_miles |-> PyFloat(3)], [radius_miles |-> PyFloat(5)],
    [radius_miles |-> PyFloat(6)], [radius_miles |-> PyInt(1)] }

\* every combination of a listing type, a center and a radius
RangeFilters ==
  { l @@ la @@ lo @@ ra :
      l \in ListingTypeChoices, la \in LatitudeChoices,
      lo \in LongitudeChoices, ra \in RadiusChoices }

\* a bound: absent, zero, or five
BoundChoices(f) == {NoKeys, f :> PyInt(0), f :> PyInt(5)}
BathChoices(f) == {NoKeys, f :> PyFloat(0), f :> PyFloat(15)}

\* every combination of the price bounds under each listing type, and of the
\* bed and bath bounds, around a valid center
PriceFilters ==
  { GoodBody @@ [listing_type |-> l] @@ a @@ b @@ c @@ d :
      l \in {TXT_sale, TXT_rental, TXT_both},
      a \in BoundChoices("min_sale_price"), b \in BoundChoices("max_sale_price"),
      c \in BoundChoices("min_rent_price"), d \in BoundChoices("max_rent_price") }
RoomFilters ==
  { GoodBody @@ [listing_type |-> TXT_both] @@ a @@ b @@ c @@ d :
      a \in BoundChoices("min_beds"), b \in BoundChoices("max_beds"),
      c \in BathChoices("min_baths"), d \in BathChoices("max_baths") }

\* the filters files: none, a path without file, no JSON, and JSON filters
FilterFiles ==
  { NoFile, MissingFile, FileOf(FALSE, EmptyDict) }
    \cup { FileOf(TRUE, PyDict(d)) :
             d \in { GoodBody @@ [listing_type |-> TXT_sale],
                     GoodBody @@ [listing_type |-> TXT_condo],
                     Center @@ [listing_type |-> TXT_both, radius_miles |-> PyInt(0)],
                     Center @@ [listing_type |-> TXT_both, radius_miles |-> PyFloat(100)] } }

\* the requests of the filter specification
WideRequests ==
  { MainRequest(PyDict(d), NoFile) : d \in RangeFilters \cup PriceFilters \cup RoomFilters }
    \cup { MainRequest(f, file) : f \in {PyNone, EmptyDict}, file \in FilterFiles }
    \cup { ApiRequest(d) : d \in {e \in RangeFilters \cup PriceFilters : ApiAccepts(e)} }

\* what the provider holds in the filter specification
FewBatches == {<<>>, <<PyNone>>, <<PyDict([address |-> TXT_a, price |-> PyInt(5)])>>}

(***************************************************************************)
(* Specifications.                                                         *)
(***************************************************************************)
\* the requests R are received; dataset[r] is what the provider holds for
\* request r, and nothing has run
InitWith(R, batches, requests, tokens) ==
  /\ request \in [R -> requests]
  /\ APIFY_TOKEN \in tokens
  /\ dataset \in [R -> batches]
  /\ query = [r \in R |-> PyNone]
  /\ client = [r \in R |-> FALSE]
  /\ search_url = [r \in R |-> PyNone]
  /\ calls = [r \in R |-> 0]
  /\ raw = [r \in R |-> <<>>]
  /\ idx = [r \in R |-> 1]
  /\ listings = [r \in R |-> <<>>]
  /\ seen_properties = [r \in R |-> {}]
  /\ pc = [r \in R |-> IF request[r].via = "api" THEN "queued" ELSE "build"]
  /\ clock = 0
  /\ response = [r \in R |-> NoResponse]
  /\ exc = [r \in R |-> NoExc]
  /\ error = [r \in R |-> NoError]

\* a search that ends early, over an empty dataset
InitEarly(R) == InitWith(R, {<<>>}, FewRequests, Tokens)

\* one search over a batch of raw records
Init ==
  \/ InitWith({1}, BatchesOf(CoreItems, MaxBatch), {GoodRequest}, {Token})
  \/ InitEarly({1})
Spec == Init /\ [][Next]_vars

\* one search over a single raw record
InitRecord ==
  \/ InitWith({1}, {<<it>> : it \in WideItems}, {GoodRequest}, {Token})
  \/ InitEarly({1})
SpecRecord == InitRecord /\ [][Next]_vars

\* two searches running on the thread pool at once
InitConc ==
  \/ InitWith({1, 2}, BatchesOf(ConcItems, MaxConcBatch), {GoodRequest}, {Token})
  \/ InitEarly({1, 2})
SpecConc == InitConc /\ [][Next]_vars

\* one search for each of the caller's filters
InitFilters == InitWith({1}, FewBatches, WideRequests, Tokens)
SpecFilters == InitFilters /\ [][Next]_vars

\* a step of the search of request r
Step(r) ==
  \/ Submit(r) \/ BuildQuery(r) \/ RunSearchStart(r) \/ ActorCall(r) \/ FetchDataset(r)
  \/ NormalizeStep(r) \/ NormalizeReturn(r) \/ OutputResults(r)
  \/ Respond(r) \/ RespondError(r)

\* a request of the endpoint, where the event loop and the pool thread keep
\* running and the provider answers or fails
InitFair == InitWith({1}, FewBatches, FewRequests, Tokens)
SpecFair == InitFair /\ [][Next]_vars /\ WF_vars(Step(1))

\* one search over a single raw record with details
InitDetail ==
  \/ InitWith({1}, {<<it>> : it \in DetailItems \cup PriceItems \cup CoordinateItems},
              {GoodRequest}, {Token})
  \/ InitEarly({1})
SpecDetail == InitDetail /\ [][Next]_vars

(***************************************************************************)
(* Vocabulary of the properties.                                           *)
(***************************************************************************)
\* normalize_results of request r has returned
Returned(r) == pc[r] \in {"output", "respond", "done"}

\* the (address, active price, classification) triple of a Listing or of the
\* normalized data of a record
TripleOf(l) ==
  <<l.address, IF ~IsNone(l.sale_price) THEN l.sale_price ELSE l.rental_price, l.listing_type>>

\* the record passes the gate, both extraction paths and Listing validation
PassesEarlierSteps(item) ==
  /\ ~NotARecord(item)
  /\ HasSignal(item)
  /\ Normalized(item).t = "data"
  /\ ListingValid(Normalized(item).d)

\* the positions of the Listings of request r that carry triple t
EmittedWith(r, t) == {n \in 1..Len(listings[r]) : TripleOf(listings[r][n].listing) = t}

\* the positions of the records of request r that pass and yield triple t
PassingWith(r, t) ==
  {k \in 1..Len(raw[r]) :
     PassesEarlierSteps(raw[r][k]) /\ TripleOf(Normalized(raw[r][k]).d) = t}

Least(S) == CHOOSE x \in S : \A y \in S : x <= y

\* the raw record the n-th Listing of request r was built from
SourceOf(r, n) == raw[r][listings[r][n].from]

\* some Listing of request r was built from the record at position j
EmittedFrom(r, j) == \E n \in 1..Len(listings[r]) : listings[r][n].from = j

(***************************************************************************)
(* C1.  Records i < j that both pass every earlier step and yield the same  *)
(* (address, active price, classification) triple leave exactly one Listing *)
(* with that triple, built from the earliest such record, and no two        *)
(* Listings of a batch share a triple.                                      *)
(***************************************************************************)
C1_FirstOccurrenceSurvives ==
  \A r \in Requests : Returned(r) =>
    /\ \A i, j \in 1..Len(raw[r]) :
         (/\ i < j
          /\ PassesEarlierSteps(raw[r][i])
          /\ PassesEarlierSteps(raw[r][j])
          /\ TripleOf(Normalized(raw[r][i]).d) = TripleOf(Normalized(raw[r][j]).d))
         => LET t == TripleOf(Normalized(raw[r][i]).d)
            IN /\ Cardinality(EmittedWith(r, t)) = 1
               /\ \A n \in EmittedWith(r, t) : listings[r][n].from = Least(PassingWith(r, t))
    /\ \A m, n \in 1..Len(listings[r]) :
         m # n => TripleOf(listings[r][m].listing) # TripleOf(listings[r][n].listing)

(***************************************************************************)
(* C2.  Every emitted Listing has exactly one of sale_price and             *)
(* rental_price non-null: a record without an extractable price is never    *)
(* emitted.                                                                 *)
(***************************************************************************)
C2_ExactlyOnePrice ==
  \A r \in Requests : \A n \in 1..Len(listings[r]) :
    LET l == listings[r][n].listing
    IN IsNone(l.sale_price) # IsNone(l.rental_price)

(***************************************************************************)
(* C3.  In every emitted Listing sale_price is non-null only for a sale,    *)
(* rental_price only for a rental, never both, and the non-null one is the  *)
(* price extracted from the raw record; the price "$450,000" of a record    *)
(* with no rental signal gives sale_price = 450000 and no rental_price.     *)
(***************************************************************************)
C3_PriceFollowsClassification ==
  \A r \in Requests : \A n \in 1..Len(listings[r]) :
    LET l == listings[r][n].listing
        item == SourceOf(r, n)
    IN /\ ~IsNone(l.sale_price) => l.listing_type = PyStr(STR_sale)
       /\ ~IsNone(l.rental_price) => l.listing_type = PyStr(STR_rental)
       /\ IsNone(l.sale_price) \/ IsNone(l.rental_price)
       /\ ~IsNone(l.sale_price) => l.sale_price = ExtractPrice(Get(item, "price"))
       /\ ~IsNone(l.rental_price) => l.rental_price = ExtractPrice(Get(item, "price"))
       /\ (Get(item, "price") = TXT_price_450000 /\ l.listing_type = PyStr(STR_sale))
            => (l.sale_price = PyInt(450000) /\ IsNone(l.rental_price))

\* a rental Listing with its price, and the sale Listing of "$450,000"
C3_Witness ==
  \E r \in Requests :
    /\ Returned(r)
    /\ \E n \in 1..Len(listings[r]) :
         /\ Get(SourceOf(r, n), "price") = TXT_price_450000
         /\ listings[r][n].listing.sale_price = PyInt(450000)

(***************************************************************************)
(* C4.  normalize_results never aborts a batch: it returns a list, and a    *)
(* malformed record does not keep a well-formed record at another position  *)
(* from being emitted.                                                      *)
(***************************************************************************)
\* the record, alone in a batch, is emitted
WellFormed(item) == Iteration(item, {}, 0).kind = "emit"

\* the record makes its extraction or its validation raise
Malformed(item) ==
  NotARecord(item) \/ (HasSignal(item) /\ TryBlock(item, {}, 0).kind = "raise")

C4_NeverAborts ==
  \A r \in Requests :
    /\ exc[r] # RecordError
    /\ Returned(r) =>
         \A j \in 1..Len(raw[r]) :
           WellFormed(raw[r][j]) =>
             \E n \in 1..Len(listings[r]) :
               /\ listings[r][n].from <= j
               /\ DedupKey(listings[r][n].listing) = DedupKey(Normalized(raw[r][j]).d)

\* a batch was returned with a Listing built from a record that follows a
\* record that raised and a record that is no mapping
C4_Witness ==
  \E r \in Requests :
    /\ Returned(r)
    /\ \E i, j, k \in 1..Len(raw[r]) :
         /\ i < k /\ j < k
         /\ NotARecord(raw[r][i])
         /\ ~NotARecord(raw[r][j]) /\ Malformed(raw[r][j])
         /\ EmittedFrom(r, k)

(***************************************************************************)
(* C5.  A record that carries only a coordinate signal, and no address, no  *)
(* price and no identifier, is rejected: no Listing is emitted for it.      *)
(***************************************************************************)
OnlyCoordinates(item) ==
  /\ ~NotARecord(item)
  /\ HasCoordinates(item)
  /\ ~Truthy(Get(item, "address"))
  /\ ~Truthy(Get(item, "price")) /\ ~Truthy(Get(item, "unformattedPrice"))
  /\ ~Truthy(Get(item, "zpid")) /\ ~Truthy(Get(item, "buildingId"))

C5_CoordinateOnlyRejected ==
  \A r \in Requests : \A n \in 1..Len(listings[r]) : ~OnlyCoordinates(SourceOf(r, n))

(***************************************************************************)
(* C6.  A record with a usable address and a parseable price, no identifier *)
(* and no coordinates is accepted: a Listing is emitted for it unless it    *)
(* duplicates an earlier emitted record.                                    *)
(***************************************************************************)
UsableAddress(item) == Truthy(ExtractAddress(Get(item, "address")))
ParseablePrice(item) == ~IsNone(ExtractPrice(Get(item, "price")))
NoIdentifier(item) == ~Truthy(Get(item, "zpid")) /\ ~Truthy(Get(item, "buildingId"))

AddressAndPriceOnly(item) ==
  /\ ~NotARecord(item)
  /\ UsableAddress(item)
  /\ ParseablePrice(item)
  /\ NoIdentifier(item)
  /\ ~HasCoordinates(item)

\* an earlier record of the batch was emitted with the triple of record j
DuplicatesEarlier(r, j) ==
  \E n \in 1..Len(listings[r]) :
    /\ listings[r][n].from < j
    /\ Normalized(raw[r][j]).t = "data"
    /\ TripleOf(listings[r][n].listing) = TripleOf(Normalized(raw[r][j]).d)

NothingElseWrong(item) ==
  /\ Truthy(ExtractPrice(Get(item, "price")))
  /\ ~Malformed(item)

\* the dedup key text of record j is that of an earlier emitted Listing
KeyEmittedEarlier(r, j) ==
  \E n \in 1..Len(listings[r]) :
    /\ listings[r][n].from < j
    /\ Normalized(raw[r][j]).t = "data"
    /\ DedupKey(listings[r][n].listing) = DedupKey(Normalized(raw[r][j]).d)

STR_rent == <<"r", "e", "n", "t">>

RentMarker(v) == v.t = "str" /\ Contains(Lower(v.s), STR_rent)

RentalSignal(item) ==
  \/ RentMarker(Get(item, "statusText"))
  \/ RentMarker(Get(item, "statusType"))
  \/ RentMarker(Get(item, "detailUrl"))

C7_RentalWins ==
  \A r \in Requests : \A n \in 1..Len(listings[r]) :
    listings[r][n].listing.listing_type =
      (IF RentalSignal(SourceOf(r, n)) THEN PyStr(STR_rental) ELSE PyStr(STR_sale))

(***************************************************************************)
(* C8.  Two calls of normalize_results on equal input return identical      *)
(* Listing sequences: same length, same order, equal values in every field, *)
(* the processing timestamp included.                                       *)
(***************************************************************************)
\* the claim as stated: violated as soon as the clock moves between the two
\* constructions of a Listing
C8_Original ==
  \A r1, r2 \in Requests :
    (Returned(r1) /\ Returned(r2) /\ raw[r1] = raw[r2]) => listings[r1] = listings[r2]

\* a Listing without its processing timestamp
Timeless(l) == [f \in DOMAIN l \ {"timestamp"} |-> l[f]]

TimelessAll(ls) ==
  [n \in 1..Len(ls) |-> [listing |-> Timeless(ls[n].listing), from |-> ls[n].from]]

\* C8 as amended: the two sequences have the same length and order and equal
\* values in every field other than the processing timestamp
C8_SameButTimestamp ==
  \A r1, r2 \in Requests :
    (Returned(r1) /\ Returned(r2) /\ raw[r1] = raw[r2])
      => TimelessAll(listings[r1]) = TimelessAll(listings[r2])

\* both calls returned a Listing for the same batch, at different times
C8_Witness ==
  /\ \A r \in Requests : Returned(r)
  /\ raw[1] = raw[2]
  /\ Len(listings[1]) > 0
  /\ listings[1] # listings[2]

(***************************************************************************)
(* C9.  The dedup set is local to one invocation: under every interleaving  *)
(* of the invocations, each returns what it returns when it runs alone, so  *)
(* a key emitted by one never drops a record of another.                    *)
(***************************************************************************)
\* normalize_results run alone on a batch, from position i on
RECURSIVE NormalizeAlone(_, _, _, _)
NormalizeAlone(batch, i, ls, seen) ==
  IF i > Len(batch) THEN ls
  ELSE LET out == Iteration(batch[i], seen, 0)
       IN IF out.kind = "emit"
          THEN NormalizeAlone(batch, i + 1,
                              Append(ls, [listing |-> out.listing, from |-> i]),
                              seen \cup {out.key})
          ELSE NormalizeAlone(batch, i + 1, ls, seen)

C9_DedupSetIsLocal ==
  \A r \in Requests :
    /\ seen_properties[r] =
         {DedupKey(listings[r][n].listing) : n \in 1..Len(listings[r])}
    /\ Returned(r) =>
         TimelessAll(listings[r]) = TimelessAll(NormalizeAlone(raw[r], 1, <<>>, {}))

\* both invocations emitted a Listing with the same key
C9_Witness ==
  /\ \A r \in Requests : Returned(r)
  /\ seen_properties[1] \cap seen_properties[2] # {}

(***************************************************************************)
(* C10.  The Listings returned for a successful search are an order-        *)
(* preserving subsequence of the provider's records: each comes from one    *)
(* record, the input order is kept, and the count reported equals the       *)
(* number of Listings returned.                                             *)
(***************************************************************************)
C10_OrderedSubsequence ==
  \A r \in Requests :
    /\ \A n \in 1..Len(listings[r]) :
         /\ listings[r][n].from \in 1..Len(raw[r])
         /\ PassesEarlierSteps(SourceOf(r, n))
         /\ Timeless(listings[r][n].listing)
              = Timeless(MakeListing(Normalized(SourceOf(r, n)).d, 0))
    /\ \A m, n \in 1..Len(listings[r]) :
         m < n => listings[r][m].from < listings[r][n].from
    /\ pc[r] = "done" =>
         /\ response[r].success
         /\ response[r].count = Len(listings[r])
         /\ Len(response[r].listings) = Len(listings[r])
         /\ \A n \in 1..Len(listings[r]) :
              response[r].listings[n] = Dump(listings[r][n].listing)

\* a response with two Listings, one record having been dropped before them
C10_Witness ==
  \E r \in Requests :
    /\ pc[r] = "done"
    /\ response[r].count = 2
    /\ listings[r][1].from = 2
    /\ listings[r][2].from = 3

(***************************************************************************)
(* Vocabulary of the search properties.                                    *)
(***************************************************************************)
\* the search of request r has ended for its caller
Ended(r) == IF ViaApi(r) THEN pc[r] \in {"done", "error"} ELSE pc[r] \in {"respond", "failed"}

\* the filters the caller of request r supplied: the dict when it is given,
\* else the JSON of the filters file when there is one
Supplied(r) ==
  IF Truthy(FiltersOf(request[r])) THEN FiltersOf(request[r])
  ELSE IF request[r].file.t = "file" /\ request[r].file.json THEN request[r].file.content
  ELSE PyNone

\* a number in tenths
Tenths(v) == IF v.t = "int" THEN 10 * v.n ELSE v.n

SuppliesRadius(r) ==
  /\ Truthy(FiltersOf(request[r]))
  /\ "radius_miles" \in DOMAIN FiltersOf(request[r]).d
  /\ FiltersOf(request[r]).d["radius_miles"].t \in {"int", "float"}

RadiusOf(r) == Tenths(FiltersOf(request[r]).d["radius_miles"])

NamesRadius(e) == e.type = "ValidationError" /\ "radius_miles" \in e.fields

C12_RadiusChecked ==
  \A r \in Requests :
    (SuppliesRadius(r) /\ pc[r] \notin {"queued", "build"}) =>
      IF RadiusOf(r) <= 0 \/ RadiusOf(r) > MAX_RADIUS_MILES
      THEN NamesRadius(exc[r]) /\ query[r] = PyNone
      ELSE ~NamesRadius(exc[r])

\* radius 0 was refused with an error that names only radius_miles
C12_Witness ==
  \E r \in Requests :
    /\ SuppliesRadius(r)
    /\ RadiusOf(r) = 0
    /\ exc[r] = ValidationError({"radius_miles"})
    /\ Ended(r)

(***************************************************************************)
(* C13.  Every SearchFilters value the validator returns has a radius in    *)
(* (0, MAX_RADIUS_MILES], a listing category among sale, rental and both,   *)
(* and, when present, a latitude in [-90, 90] and a longitude in            *)
(* [-180, 180]; also for input that omits the radius or the category.       *)
(***************************************************************************)
C13_ValidatedFiltersInRange ==
  \A r \in Requests :
    query[r] # PyNone =>
      /\ query[r].radius_miles.t = "float"
      /\ query[r].radius_miles.n > 0
      /\ query[r].radius_miles.n <= MAX_RADIUS_MILES
      /\ query[r].listing_type \in {TXT_sale, TXT_rental, TXT_both}
      /\ IsNone(query[r].latitude)
           \/ (query[r].latitude.n >= 0 - 900 /\ query[r].latitude.n <= 900)
      /\ IsNone(query[r].longitude)
           \/ (query[r].longitude.n >= 0 - 1800 /\ query[r].longitude.n <= 1800)

(***************************************************************************)
(* C14.  When the filters the caller supplied (the dict, or the JSON of the *)
(* filters file) fail validation, the provider client is never built or     *)
(* called in that invocation, and the invocation ends with the validation   *)
(* error of those filters.                                                  *)
(***************************************************************************)
SuppliedFails(r) ==
  /\ Supplied(r).t = "dict"
  /\ ~SearchFilters(Supplied(r).d).ok

C14_InvalidFiltersStopSearch ==
  \A r \in Requests :
    SuppliedFails(r) =>
      /\ ~client[r]
      /\ calls[r] = 0
      /\ pc[r] \in {"queued", "build", "failed", "error"}
      /\ pc[r] \in {"failed", "error"} => exc[r] = SearchFilters(Supplied(r).d).exc

(***************************************************************************)
(* C15.  When APIFY_TOKEN is absent, run_search fails before it builds the  *)
(* client or calls the provider, and no search reaches normalization.       *)
(***************************************************************************)
C15_NoTokenNoProvider ==
  ~Truthy(APIFY_TOKEN) =>
    \A r \in Requests :
      /\ ~client[r]
      /\ calls[r] = 0
      /\ search_url[r] = PyNone
      /\ pc[r] \in {"queued", "build", "search", "failed", "error"}
      /\ (pc[r] \in {"failed", "error"} /\ query[r] # PyNone) => exc[r] = TokenMissing

\* run_search raised for the missing credential
C15_Witness ==
  \E r \in Requests :
    /\ ~Truthy(APIFY_TOKEN)
    /\ query[r] # PyNone
    /\ exc[r] = TokenMissing
    /\ Ended(r)

(***************************************************************************)
(* C16.  Within one search the provider actor is called at most once; when  *)
(* the call or the fetch of its dataset fails the failure leaves main at    *)
(* once, no second call is made, and normalize_results never runs on part   *)
(* of the dataset.                                                          *)
(***************************************************************************)
C16_OneProviderCall ==
  \A r \in Requests :
    /\ calls[r] <= 1
    /\ exc[r] \in {ActorFailure, DatasetFailure} =>
         /\ pc[r] \in {"failed", "error"}
         /\ calls[r] = 1
         /\ raw[r] = <<>> /\ idx[r] = 1 /\ listings[r] = <<>>
    /\ pc[r] \in {"normalize", "output", "respond", "done"} =>
         /\ calls[r] = 1
         /\ raw[r] = dataset[r]

\* the fetch of a dataset of several records failed after the one call, and
\* the search ended with that failure
C16_Witness ==
  \E r \in Requests :
    /\ exc[r] = DatasetFailure
    /\ Len(dataset[r]) > 1
    /\ calls[r] = 1
    /\ Ended(r)

(***************************************************************************)
(* C17.  Every request that reaches the handler ends with exactly one       *)
(* outcome: a success response with the listings, or one error; at no time  *)
(* both, and it does end.                                                   *)
(***************************************************************************)
OneOutcome(r) ==
  /\ ~(response[r] # NoResponse /\ error[r] # NoError)
  /\ pc[r] = "done" => (response[r].success /\ error[r] = NoError)
  /\ pc[r] = "error" => (error[r] # NoError /\ response[r] = NoResponse)
  /\ pc[r] \notin {"done", "error"} => (response[r] = NoResponse /\ error[r] = NoError)

C17_ExactlyOneOutcome ==
  /\ [](\A r \in Requests : ViaApi(r) => OneOutcome(r))
  /\ <>(\A r \in Requests : ViaApi(r) => pc[r] \in {"done", "error"})

\* a request ended with an error and no response
C17_Witness ==
  \E r \in Requests :
    /\ ViaApi(r)
    /\ pc[r] = "error"
    /\ error[r] = HTTPException(ActorFailure)

(***************************************************************************)
(* C18.  Validator and provider failures reach the caller unchanged in      *)
(* kind: a validation error as a validation error that names its fields,    *)
(* the missing credential apart from a provider failure; only an unexpected *)
(* exception is reported as the generic internal failure.                   *)
(***************************************************************************)
\* the exceptions of the validator and of the provider client
Expected(e) == e.type = "ValidationError" \/ e \in {TokenMissing, ActorFailure, DatasetFailure}

\* the kind the caller of the endpoint is told: status 500 is the generic
\* internal failure
Generic(err) == err.status_code = 500

C18_FailureKindKept ==
  \A r \in Requests :
    pc[r] = "error" => (Generic(error[r]) <=> ~Expected(exc[r]))

(***************************************************************************)
(* C19.  build_zillow_url raises nothing: for every SearchFilters value     *)
(* that passed validation, without center or with latitude 0 or longitude   *)
(* 0 as well, a query url is returned.                                      *)
(***************************************************************************)
C19_QueryBuilderTotal ==
  \A r \in Requests :
    (query[r] # PyNone /\ client[r]) =>
      /\ exc[r].type # "UnboundLocalError"
      /\ pc[r] \notin {"search", "failed", "error"} => search_url[r] # PyNone

(***************************************************************************)
(* C20.  In the built query each min and max bound of beds, of baths and of *)
(* the price range of the selected listing category is in its min/max       *)
(* sub-object exactly when the caller supplied it; a supplied 0 is present. *)
(***************************************************************************)
\* the sub-object key of the filter state holds the bound
Holds(fs, key, bound) == key \in DOMAIN fs /\ bound \in DOMAIN fs[key]

C20_BoundsPresentWhenSupplied ==
  \A r \in Requests :
    search_url[r] # PyNone =>
      LET fs == search_url[r].filterState
          q == query[r]
      IN /\ Holds(fs, "beds", "min") <=> ~IsNone(q.min_beds)
         /\ Holds(fs, "beds", "max") <=> ~IsNone(q.max_beds)
         /\ Holds(fs, "baths", "min") <=> ~IsNone(q.min_baths)
         /\ Holds(fs, "baths", "max") <=> ~IsNone(q.max_baths)
         /\ ForSale(q) =>
              /\ Holds(fs, "price", "min") <=> ~IsNone(q.min_sale_price)
              /\ Holds(fs, "price", "max") <=> ~IsNone(q.max_sale_price)
         /\ ForRent(q) =>
              /\ Holds(fs, "monthlyPayment", "min") <=> ~IsNone(q.min_rent_price)
              /\ Holds(fs, "monthlyPayment", "max") <=> ~IsNone(q.max_rent_price)

(***************************************************************************)
(* C21.  For every valid center that is not at a pole and every radius in   *)
(* (0, MAX_RADIUS_MILES], build_zillow_url builds a bounding region with    *)
(* west < longitude < east and south < latitude < north, whose latitude     *)
(* offset is radius / 69 degrees.                                           *)
(***************************************************************************)
\* the validated query of request r has a center off the poles and a radius
\* in (0, MAX_RADIUS_MILES]
CenterOffPole(q) ==
  /\ ~IsNone(q.latitude) /\ ~IsNone(q.longitude)
  /\ Abs(q.latitude.n) < 900
  /\ ~IsNone(q.radius_miles)
  /\ q.radius_miles.n > 0 /\ q.radius_miles.n <= MAX_RADIUS_MILES

\* the region strictly contains the center, in hundred-thousandths of a degree
StrictlyAround(b, q) ==
  /\ b.west < q.longitude.n * 10000 /\ q.longitude.n * 10000 < b.east
  /\ b.south < q.latitude.n * 10000 /\ q.latitude.n * 10000 < b.north
  /\ b.north - q.latitude.n * 10000 = (q.radius_miles.n * 10000) \div 69

C21_RegionContainsCenter ==
  \A r \in Requests :
    (query[r] # PyNone /\ client[r] /\ CenterOffPole(query[r])) =>
      /\ search_url[r] # PyNone
      /\ StrictlyAround(search_url[r].mapBounds, query[r])

(***************************************************************************)
(* C22.  A raw record is processed as a building exactly when its           *)
(* isBuilding or its buildingId is truthy.  Every Listing of such a record  *)
(* has building = true, takes beds, baths and living area from minBeds,     *)
(* minBaths and minArea, and has no year built, no estimate and no days on  *)
(* the market; every Listing of another record has building = false.        *)
(***************************************************************************)
\* the record carries a truthy isBuilding or buildingId
Aggregate(item) ==
  \/ ("isBuilding" \in DOMAIN item.d /\ Truthy(item.d["isBuilding"]))
  \/ ("buildingId" \in DOMAIN item.d /\ Truthy(item.d["buildingId"]))

\* the value of the key of the record, None when the record has no such key
Raw(item, k) == IF k \in DOMAIN item.d THEN item.d[k] ELSE PyNone

Absent(l, f) == f \notin DOMAIN l \/ IsNone(l[f])

C22_BuildingFromMinimums ==
  \A r \in Requests : \A n \in 1..Len(listings[r]) :
    LET l == listings[r][n].listing
        item == SourceOf(r, n)
    IN IF Aggregate(item)
       THEN /\ l.building = PyBool(TRUE)
            /\ l.beds = ExtractNumber(Raw(item, "minBeds"), FALSE)
            /\ l.baths = ExtractNumber(Raw(item, "minBaths"), TRUE)
            /\ l.living_area = ExtractNumber(Raw(item, "minArea"), FALSE)
            /\ Absent(l, "year_built")
            /\ Absent(l, "zestimate") /\ Absent(l, "rent_zestimate")
            /\ Absent(l, "days_on_zillow")
       ELSE l.building = PyBool(FALSE)

\* a Listing of a record with a buildingId that carries beds and minBeds, the
\* facts of hdpData and a time on the market
C22_Witness ==
  \E r \in Requests : \E n \in 1..Len(listings[r]) :
    /\ Truthy(Raw(SourceOf(r, n), "buildingId"))
    /\ Raw(SourceOf(r, n), "beds") = PyInt(3)
    /\ Raw(SourceOf(r, n), "hdpData") = HomeInfo
    /\ Raw(SourceOf(r, n), "timeOnZillow") = PyInt(3)
    /\ listings[r][n].listing.beds = PyInt(1)
    /\ listings[r][n].listing.baths = PyFloat(15)
    /\ listings[r][n].listing.living_area = PyInt(500)
    /\ IsNone(listings[r][n].listing.year_built)

(***************************************************************************)
(* C23.  Each primitive extractor (price, coordinates, address, number,     *)
(* url) returns a value or None for any raw value and never raises, also    *)
(* for coordinate text that is no number and a latLong that is no mapping.  *)
(***************************************************************************)
\* the records of request r the loop has gone through that reached the
\* extractors
Extracted(r) ==
  {i \in 1..(idx[r] - 1) : ~NotARecord(raw[r][i]) /\ HasSignal(raw[r][i])}

\* no extractor raised on the fields the extraction path gives it
NoExtractorRaises(item) ==
  /\ ~Raised(ExtractCoordinates(item))
  /\ ~Raised(ExtractPrice(Raw(item, "price")))
  /\ ~Raised(ExtractAddress(Raw(item, "address")))
  /\ ~Raised(ExtractAddress(item))
  /\ ~Raised(ExtractUrl(Raw(item, "detailUrl")))
  /\ \A k \in {"beds", "baths", "area", "minBeds", "minBaths", "minArea", "timeOnZillow"} :
       ~Raised(ExtractNumber(Raw(item, k), TRUE))

C23_ExtractorsTotal ==
  \A r \in Requests : \A i \in Extracted(r) : NoExtractorRaises(raw[r][i])

(***************************************************************************)
(* C24.  The extracted price of a number is the number truncated to an      *)
(* integer; of text with a leading "from" marker, the integer of the digit  *)
(* token after the marker; of any other text, the integer of its digits     *)
(* once currency and formatting characters are stripped; of text without    *)
(* digits, and of a value that is neither text nor number, None.            *)
(***************************************************************************)
\* the price a Listing carries: its sale price, else its rental price
ActivePrice(l) == IF ~IsNone(l.sale_price) THEN l.sale_price ELSE l.rental_price

\* the characters of s that are digits or dots, in order
DigitsAndDots(s) == SelectSeq(s, LAMBDA c : c \in Range(Digits) \cup {"."})

\* the digits of s before its first dot
LeadingDigits(s) ==
  LET stops == {i \in 1..(Len(s) + 1) : i = Len(s) + 1 \/ s[i] = "."}
  IN SubSeq(s, 1, Least(stops) - 1)

HasDigit(s) == \E i \in 1..Len(s) : s[i] \in Range(Digits)

\* s is digits with at most one dot among them, and at least one digit
OneNumeral(s) ==
  /\ HasDigit(s)
  /\ Cardinality({i \in 1..Len(s) : s[i] = "."}) <= 1

\* the digit-and-comma token that follows the leftmost "from" marker of the
\* lower-cased text after optional blanks and an optional "$"; <<>> when no
\* marker is followed by such a token
TokenAfterFrom(s) ==
  LET low == [i \in 1..Len(s) |-> LowerChar(s[i])]
      Blank(p, q) == \A i \in p..(q - 1) : low[i] \in Whitespace
      InToken(c) == c \in Range(Digits) \cup {","}
      \* the token of the marker at p starts at g
      StartsToken(p, g) ==
        /\ g <= Len(low) /\ InToken(low[g])
        /\ \/ Blank(p + 4, g)
           \/ (g - 1 >= p + 4 /\ low[g - 1] = "$" /\ Blank(p + 4, g - 1))
      marks == {p \in 1..Len(low) : StartsWithAt(low, STR_from, p)
                                      /\ \E g \in (p + 4)..Len(low) : StartsToken(p, g)}
  IN IF marks = {} THEN <<>>
     ELSE LET p == Least(marks)
              g == Least({h \in (p + 4)..Len(low) : StartsToken(p, h)})
              ends == {e \in g..Len(low) : \A i \in g..e : InToken(low[i])}
              e == CHOOSE x \in ends : \A y \in ends : y <= x
          IN SubSeq(low, g, e)

NatOf(s) == DigitsToNat(SelectSeq(s, LAMBDA c : c \in Range(Digits)))

\* the price as the statement gives it: the marker counts when it leads the
\* text, and text with digits always has a price
StatedPrice(v) ==
  CASE v.t = "int" -> PyInt(v.n)
    [] v.t = "float" -> PyInt(TruncTenths(v.n))
    [] v.t = "str" ->
         LET low == [i \in 1..Len(v.s) |-> LowerChar(v.s[i])]
         IN IF StartsWith(low, STR_from) /\ HasDigit(TokenAfterFrom(v.s))
            THEN PyInt(NatOf(TokenAfterFrom(v.s)))
            ELSE IF HasDigit(v.s) THEN PyInt(NatOf(LeadingDigits(DigitsAndDots(v.s))))
            ELSE PyNone
    [] OTHER -> PyNone

C24_Original ==
  \A r \in Requests : \A n \in 1..Len(listings[r]) :
    ActivePrice(listings[r][n].listing) = StatedPrice(Raw(SourceOf(r, n), "price"))

\* the price as amended: the marker counts wherever it stands, and other
\* text has a price only when its digits and dots form one numeral
AmendedPrice(v) ==
  CASE v.t = "int" -> PyInt(v.n)
    [] v.t = "float" -> PyInt(TruncTenths(v.n))
    [] v.t = "str" ->
         IF TokenAfterFrom(v.s) # <<>>
         THEN IF HasDigit(TokenAfterFrom(v.s)) THEN PyInt(NatOf(TokenAfterFrom(v.s))) ELSE PyNone
         ELSE IF OneNumeral(DigitsAndDots(v.s))
              THEN PyInt(NatOf(LeadingDigits(DigitsAndDots(v.s))))
              ELSE PyNone
    [] OTHER -> PyNone

C24_PriceExtraction ==
  \A r \in Requests : \A n \in 1..Len(listings[r]) :
    ActivePrice(listings[r][n].listing) = AmendedPrice(Raw(SourceOf(r, n), "price"))

\* a Listing with the price 388000 of "From $388,000"
C24_Witness ==
  \E r \in Requests : \E n \in 1..Len(listings[r]) :
    /\ Raw(SourceOf(r, n), "price") = TXT_price_from
    /\ ActivePrice(listings[r][n].listing) = PyInt(388000)

(***************************************************************************)
(* C25.  The address of every emitted Listing, of an individual or of a     *)
(* building record, is the raw address with surrounding whitespace trimmed  *)
(* when the raw address is text, and the present sub-fields in the order    *)
(* street, address, line1, city, state, zip joined by ", " when it is a     *)
(* structured object.                                                       *)
(***************************************************************************)
\* the sub-fields of a structured address that are present, in the fixed order
PresentParts(a) ==
  LET keys == <<"streetAddress", "address", "line1", "city", "state", "zip">>
      Present(i) == keys[i] \in DOMAIN a.d /\ Truthy(a.d[keys[i]])
      F[i \in 0..Len(keys)] ==
        IF i = 0 THEN <<>>
        ELSE IF Present(i) THEN Append(F[i - 1], a.d[keys[i]].s) ELSE F[i - 1]
  IN F[Len(keys)]

\* the address the statement gives for a raw address
StatedAddress(a) ==
  CASE a.t = "str" -> PyStr(Strip(a.s))
    [] a.t = "dict" -> PyStr(JoinWith(PresentParts(a), <<",", " ">>))
    [] OTHER -> PyNone

C25_AddressTrimmedOrJoined ==
  \A r \in Requests : \A n \in 1..Len(listings[r]) :
    Raw(SourceOf(r, n), "address").t \in {"str", "dict"} =>
      listings[r][n].listing.address = StatedAddress(Raw(SourceOf(r, n), "address"))

(***************************************************************************)
(* C26.  The Listing of an individual record whose timeOnZillow is a number *)
(* or text that contains a number carries days on the market equal to that  *)
(* number truncated to a whole number.                                      *)
(***************************************************************************)
\* the whole days of a timeOnZillow value: -1 when it holds no number
WholeDays(v) ==
  CASE v.t = "int" -> v.n
    [] v.t = "float" -> TruncTenths(v.n)
    [] v.t = "str" -> IF HasDigit(v.s) THEN NatOf(LeadingDigits(DigitsAndDots(v.s))) ELSE 0 - 1
    [] OTHER -> 0 - 1

C26_DaysOnMarketCarried ==
  \A r \in Requests : \A n \in 1..Len(listings[r]) :
    LET item == SourceOf(r, n)
        l == listings[r][n].listing
    IN (~Aggregate(item) /\ WholeDays(Raw(item, "timeOnZillow")) >= 0) =>
         /\ "days_on_zillow" \in DOMAIN l
         /\ l.days_on_zillow = PyInt(WholeDays(Raw(item, "timeOnZillow")))

(***************************************************************************)
(* C27.  Every request the filter model of the endpoint accepts, its        *)
(* defaults included, is accepted by SearchFilters of the core: no request  *)
(* of the endpoint fails the core validation.                               *)
(***************************************************************************)
C27_BoundaryValidIsCoreValid ==
  \A r \in Requests :
    ViaApi(r) => exc[r].type # "ValidationError"

(***************************************************************************)
(* C28.  A record dropped at Listing validation leaves the dedup set as it  *)
(* was: a later valid record with the same key is still emitted, and at     *)
(* every point the dedup set is exactly the set of the keys of the Listings *)
(* emitted so far.                                                          *)
(***************************************************************************)
\* the record reaches Listing validation and fails it
FailsValidation(item) ==
  /\ ~NotARecord(item) /\ HasSignal(item)
  /\ Normalized(item).t = "data"
  /\ ~ListingValid(Normalized(item).d)

KeyOfRecord(item) == DedupKey(Normalized(item).d)

KeysEmitted(r) == {DedupKey(listings[r][n].listing) : n \in 1..Len(listings[r])}

C28_DroppedLeavesNoKey ==
  \A r \in Requests :
    /\ seen_properties[r] = KeysEmitted(r)
    /\ \A j \in 1..(idx[r] - 1) :
         PassesEarlierSteps(raw[r][j]) =>
           \/ EmittedFrom(r, j)
           \/ \E n \in 1..Len(listings[r]) :
                /\ listings[r][n].from < j
                /\ DedupKey(listings[r][n].listing) = KeyOfRecord(raw[r][j])

\* a record failed validation and a later record with its key was emitted
C28_Witness ==
  \E r \in Requests : \E i, j \in 1..(idx[r] - 1) :
    /\ i < j
    /\ FailsValidation(raw[r][i])
    /\ PassesEarlierSteps(raw[r][j])
    /\ KeyOfRecord(raw[r][i]) = KeyOfRecord(raw[r][j])
    /\ EmittedFrom(r, j)
    /\ seen_properties[r] = {KeyOfRecord(raw[r][j])}

(***************************************************************************)
(* C29.  A record is dropped as a duplicate only when an earlier emitted    *)
(* Listing of the batch has the same (address, active price,                *)
(* classification) triple: records with different triples, an absent        *)
(* address and the address text "None" for one, never collide.              *)
(***************************************************************************)
\* the record passed every earlier step and was dropped at the dedup test
DroppedAsDuplicate(r, j) ==
  /\ j < idx[r]
  /\ PassesEarlierSteps(raw[r][j])
  /\ ~EmittedFrom(r, j)

C29_KeyInjective ==
  \A r \in Requests : \A j \in 1..Len(raw[r]) :
    DroppedAsDuplicate(r, j) =>
      \E n \in 1..Len(listings[r]) :
        /\ listings[r][n].from < j
        /\ TripleOf(listings[r][n].listing) = TripleOf(Normalized(raw[r][j]).d)

====
